---- MODULE Spec2Model ----
(***************************************************************************)
(* Reminder scheduling and delivery of the LINE interview bot              *)
(* (src/app.js, with the legacy targeted variant src/unnamed/part_001).    *)
(*                                                                         *)
(* Time is an integer number of milliseconds of Asia/Taipei local time,    *)
(* counted from 00:00 of day 0 (Asia/Taipei has no daylight saving, so     *)
(* moment's diff is the plain difference of two such instants).            *)
(***************************************************************************)
EXTENDS Integers, Sequences, FiniteSets, TLC

\* moment#diff(now, 'hours', true) divides the millisecond difference by 36e5.
Hour == 3600000
DayMs == 24 * Hour

(***************************************************************************)
(* Identifiers.  A LINE identifier is a string; the code looks only at     *)
(* its first character and its length, so it is modelled by both, plus a   *)
(* tag that tells identifiers of one shape apart.                          *)
(***************************************************************************)
NoId == [pre |-> "", len |-> 0, tag |-> 0]
LineId(p, l, n) == [pre |-> p, len |-> l, tag |-> n]

\* ReminderManager.isValidLineUserId
isValidLineUserId(userId) ==
    userId # NoId /\ userId.pre = "U" /\ userId.len = 33

\* ReminderManager.isValidLineGroupId
isValidLineGroupId(groupId) ==
    groupId # NoId /\ groupId.pre = "C" /\ groupId.len = 33


TestUserId == LineId("t", 13, 0)      \* 'test-user-123' of /create-test-interview
UserA == LineId("U", 33, 1)
UserB == LineId("U", 33, 2)
GroupA == LineId("C", 33, 1)

(***************************************************************************)
(* Bounds of the model.                                                    *)
(***************************************************************************)
MaxInterviews == 2      \* calls of addInterview ever made
MaxRuns == 2            \* requests to /trigger-reminders ever handled
Cycles == {1, 2}        \* requests that can be in flight together
Kinds == {"24h", "3h"}

VARIABLES
    now,          \* the clock, moment.tz('Asia/Taipei')
    env,          \* process.env, fixed for a deployment
    interviews,   \* table interviews: id -> row
    nextId,       \* the BIGSERIAL of interviews.id
    line_users,   \* table line_users: user_id -> active
    line_groups,  \* table line_groups: group_id -> active
    cyc,          \* the /trigger-reminders requests in flight
    runs,         \* number of requests handled so far
    adder,        \* the addInterview call in flight
    delivered,    \* history: pushMessage calls that resolved, per target and reminder
    malformed,    \* history: malformed identifiers passed to pushMessage
    marked,       \* history: reminders whose flag a cycle wrote after a delivery
    late,         \* history: pushes of a cycle for a reminder that was
                  \* already delivered and marked when the cycle fetched
    reply,        \* the outcome of an owner's command, until its reply is sent
    hook          \* the contact writes the webhook issued and did not await

vars == <<now, env, interviews, nextId, line_users, line_groups,
          cyc, runs, adder, delivered, malformed, marked, late, reply, hook>>

(***************************************************************************)
(* The interviews table.                                                   *)
(***************************************************************************)
\* insert of addInterview: the flags take the column default FALSE
NewRow(userId, date, time) ==
    [user_id |-> userId, interview_date |-> date, interview_time |-> time,
     reminder_24h_sent |-> FALSE, reminder_3h_sent |-> FALSE]

\* moment.tz(`${interview_date} ${interview_time}`, ..., 'Asia/Taipei')
interviewDateTime(row) == row.interview_date * DayMs + row.interview_time

\* interviewDateTime.diff(now, 'hours', true), kept in milliseconds
diffMs(row, t) == interviewDateTime(row) - t

\* now.format('YYYY-MM-DD'), as a day number
Today(t) == t \div DayMs

SentFlag(row, reminderType) ==
    IF reminderType = "24h" THEN row.reminder_24h_sent ELSE row.reminder_3h_sent

\* an update that sets both flags of the row
markReminderSent_bothFlags(rows, interviewId, reminderType) ==
    [i \in DOMAIN rows |->
        IF i # interviewId THEN rows[i]
        ELSE [rows[i] EXCEPT !.reminder_24h_sent = TRUE, !.reminder_3h_sent = TRUE]]

\* InterviewManager.markReminderSent: update ... where id = interviewId
markReminderSent(rows, interviewId, reminderType) ==
    [i \in DOMAIN rows |->
        IF i # interviewId THEN rows[i]
        ELSE IF reminderType = "24h" THEN [rows[i] EXCEPT !.reminder_24h_sent = TRUE]
        ELSE IF reminderType = "3h" THEN [rows[i] EXCEPT !.reminder_3h_sent = TRUE]
        ELSE rows[i]]

\* the update inside markReminderSent written although the store refused it
WriteFlag_ignoreError(rows, interviewId, reminderType, ok) ==
    markReminderSent(rows, interviewId, reminderType)

\* markReminderSent's try/catch: when the update fails the table is as before
\* and the error is swallowed into { success: false }
WriteFlag(rows, interviewId, reminderType, ok) ==
    IF ok THEN markReminderSent(rows, interviewId, reminderType) ELSE rows

RECURSIVE SeqOfSet(_)
\* the rows of a select, in ascending id
SeqOfSet(S) ==
    IF S = {} THEN <<>>
    ELSE LET m == CHOOSE x \in S : \A y \in S : x <= y
         IN  <<m>> \o SeqOfSet(S \ {m})

SeqToSet(s) == {s[k] : k \in 1..Len(s)}

(***************************************************************************)
(* InterviewManager.getInterviewsNeedingReminders                          *)
(***************************************************************************)
\* the select with .gt in place of .gte
allInterviews_afterToday(rows, t) ==
    {i \in DOMAIN rows :
        /\ (~rows[i].reminder_24h_sent \/ ~rows[i].reminder_3h_sent)
        /\ rows[i].interview_date > Today(t)}

\* the select that asks for both flags to be false
allInterviews_bothUnsent(rows, t) ==
    {i \in DOMAIN rows :
        /\ (~rows[i].reminder_24h_sent /\ ~rows[i].reminder_3h_sent)
        /\ rows[i].interview_date >= Today(t)}

\* .or('reminder_24h_sent.eq.false,reminder_3h_sent.eq.false')
\* .gte('interview_date', now.format('YYYY-MM-DD'))
allInterviews(rows, t) ==
    {i \in DOMAIN rows :
        /\ (~rows[i].reminder_24h_sent \/ ~rows[i].reminder_3h_sent)
        /\ rows[i].interview_date >= Today(t)}

\* the 24h window without its two end points
in24hWindow_open(row, t) ==
    /\ ~row.reminder_24h_sent
    /\ 2 * diffMs(row, t) > 47 * Hour
    /\ 2 * diffMs(row, t) < 49 * Hour

\* the 24h window without the test of the flag
in24hWindow_noFlag(row, t) ==
    /\ 2 * diffMs(row, t) >= 47 * Hour
    /\ 2 * diffMs(row, t) <= 49 * Hour

\* the 24h window without its lower bound
in24hWindow_noLowerBound(row, t) ==
    /\ ~row.reminder_24h_sent
    /\ 2 * diffMs(row, t) <= 49 * Hour

\* !reminder_24h_sent && diffHours >= 23.5 && diffHours <= 24.5
in24hWindow(row, t) ==
    /\ ~row.reminder_24h_sent
    /\ 2 * diffMs(row, t) >= 47 * Hour
    /\ 2 * diffMs(row, t) <= 49 * Hour

\* the 3h window open only once the 24h reminder was sent
in3hWindow_after24(row, t) ==
    /\ ~row.reminder_3h_sent
    /\ row.reminder_24h_sent
    /\ 2 * diffMs(row, t) >= 5 * Hour
    /\ 2 * diffMs(row, t) <= 7 * Hour

\* the 3h window reaching up to the end of the 24h window
in3hWindow_upTo24h(row, t) ==
    /\ ~row.reminder_3h_sent
    /\ 2 * diffMs(row, t) >= 5 * Hour
    /\ 2 * diffMs(row, t) <= 49 * Hour

\* the 3h window without its lower bound
in3hWindow_noLowerBound(row, t) ==
    /\ ~row.reminder_3h_sent
    /\ 2 * diffMs(row, t) <= 7 * Hour

\* !reminder_3h_sent && diffHours >= 2.5 && diffHours <= 3.5
in3hWindow(row, t) ==
    /\ ~row.reminder_3h_sent
    /\ 2 * diffMs(row, t) >= 5 * Hour
    /\ 2 * diffMs(row, t) <= 7 * Hour

interviews24h(rows, t) ==
    SeqOfSet({i \in allInterviews(rows, t) : in24hWindow(rows[i], t)})

interviews3h(rows, t) ==
    SeqOfSet({i \in allInterviews(rows, t) : in3hWindow(rows[i], t)})

(***************************************************************************)
(* InterviewManager.addInterview, one step for each await                  *)
(***************************************************************************)
\* data: the row the insert returned, which addInterview returns to its caller
IdleAdder ==
    [pc |-> "idle", id |-> 0, start |-> 0, need24 |-> FALSE, need3 |-> FALSE,
     failed |-> FALSE, success |-> FALSE, data |-> NewRow(NoId, 0, 0)]

\* the 24h guard with the bound of the 3h guard
guard24h_1h(diff) == diff < Hour

\* if (diffHours < 3)
guard24h(diff) == diff < 3 * Hour

\* if (diffHours < 1)
guard3h(diff) == diff < Hour

\* supabase.from('interviews').insert([...]).select(); interview = data[0]
AddInsert(userId, date, time, ok) ==
    /\ adder.pc \in {"idle", "done"}
    /\ nextId <= MaxInterviews
    /\ IF ok
       THEN /\ interviews' = [i \in DOMAIN interviews \cup {nextId} |->
                                 IF i = nextId THEN NewRow(userId, date, time)
                                 ELSE interviews[i]]
            /\ nextId' = nextId + 1
            /\ adder' = [IdleAdder EXCEPT
                            !.pc = "guard", !.id = nextId, !.success = TRUE,
                            !.data = NewRow(userId, date, time),
                            !.start = interviewDateTime(NewRow(userId, date, time))]
       ELSE /\ adder' = [IdleAdder EXCEPT !.pc = "done"]
            /\ UNCHANGED <<interviews, nextId>>
    /\ UNCHANGED <<now, env, line_users, line_groups, cyc, runs, delivered, malformed, marked, late,
                   reply, hook>>

\* const now = moment.tz('Asia/Taipei'); diffHours = interviewDateTime.diff(now)
AddGuard ==
    /\ adder.pc = "guard"
    /\ LET diff == adder.start - now
       IN  adder' = [adder EXCEPT
                        !.need24 = guard24h(diff),
                        !.need3 = guard3h(diff),
                        !.pc = IF guard24h(diff) THEN "mark24"
                               ELSE IF guard3h(diff) THEN "mark3"
                               ELSE "done"]
    /\ UNCHANGED <<now, env, interviews, nextId, line_users, line_groups,
                   cyc, runs, delivered, malformed, marked, late, reply, hook>>

\* a failed write of the 24h flag that makes addInterview report failure
AddMark24_throws(ok) ==
    /\ adder.pc = "mark24"
    /\ interviews' = WriteFlag(interviews, adder.id, "24h", ok)
    /\ adder' = [adder EXCEPT
                    !.failed = adder.failed \/ ~ok,
                    !.success = ok,
                    !.pc = IF ok /\ adder.need3 THEN "mark3" ELSE "done"]
    /\ UNCHANGED <<now, env, nextId, line_users, line_groups, cyc, runs, delivered,
                   malformed, marked, late, reply, hook>>

\* await this.markReminderSent(interview.id, '24h'): a failed write is swallowed
AddMark24(ok) ==
    /\ adder.pc = "mark24"
    /\ interviews' = WriteFlag(interviews, adder.id, "24h", ok)
    /\ adder' = [adder EXCEPT
                    !.failed = adder.failed \/ ~ok,
                    !.pc = IF adder.need3 THEN "mark3" ELSE "done"]
    /\ UNCHANGED <<now, env, nextId, line_users, line_groups, cyc, runs, delivered, malformed, marked, late,
                   reply, hook>>

\* await this.markReminderSent(interview.id, '3h'); return { success: true, ... }
AddMark3(ok) ==
    /\ adder.pc = "mark3"
    /\ interviews' = WriteFlag(interviews, adder.id, "3h", ok)
    /\ adder' = [adder EXCEPT !.failed = adder.failed \/ ~ok, !.pc = "done"]
    /\ UNCHANGED <<now, env, nextId, line_users, line_groups, cyc, runs, delivered, malformed, marked, late,
                   reply, hook>>

(***************************************************************************)
(* Recipients and the dispatch channel                                     *)
(***************************************************************************)
\* a fixed order standing for the order in which a select returns rows
IdOrder == <<UserA, UserB, TestUserId, GroupA>>

SeqOfIds(S) == LET InS(x) == x \in S IN SelectSeq(IdOrder, InS)

\* an array in place of the Set: a value added twice stays twice
AddAll_noDedup(seq, more) == seq \o more

\* Set#add keeps the first insertion of a value
AddAll(seq, more) ==
    LET Fresh(x) == x \notin SeqToSet(seq) IN seq \o SelectSeq(more, Fresh)

SetOrNone(id) == IF id = NoId THEN <<>> ELSE <<id>>

\* ReminderManager.getReminderRecipientIds (broadcast policy); uOk, fOk, gOk
\* tell whether the three selects succeed
getReminderRecipientIds(users, groups, rows, e, uOk, fOk, gOk) ==
    LET tracked == IF uOk THEN SeqOfIds({u \in DOMAIN users : users[u]}) ELSE <<>>
        owners == IF fOk
                  THEN SeqOfIds({rows[i].user_id : i \in DOMAIN rows} \ {NoId})
                  ELSE <<>>
        withFallback == IF tracked = <<>> THEN owners ELSE tracked
        trackedGroups == IF gOk THEN SeqOfIds({g \in DOMAIN groups : groups[g]})
                         ELSE <<>>
    IN  [userIds  |-> AddAll(withFallback, SetOrNone(e.PRESIDENT_LINE_USER_ID)),
         groupIds |-> AddAll(AddAll(trackedGroups, SetOrNone(e.GROUP_ID)),
                             e.GROUP_IDS)]

\* one entry of an errors array
Err(type, to, kind, id) == [type |-> type, to |-> to, kind |-> kind, id |-> id]
InvalidErr(to) == Err("invalid", to, "", 0)       \* `...: Invalid LINE ... ID format`
DeliveryErr(to) == Err("delivery", to, "", 0)     \* `User ${userId}: ${error.message}`
InterviewErr(kind, id) == Err("interview", NoId, kind, id)
                                    \* `24h reminder for interview ${id}: ${error}`
Skip == Err("none", NoId, "", 0)
NotSkip(e) == e # Skip

\* the two loops as one that ends at the first push that fails
FanOut_stopAtFailure(userIds, groupIds, okSet) ==
    LET us == SelectSeq(userIds, isValidLineUserId)
        gs == SelectSeq(groupIds, isValidLineGroupId)
        all == us \o gs
        bad == {k \in 1..Len(all) : all[k] \notin okSet}
        last == IF bad = {} THEN Len(all) ELSE CHOOSE k \in bad : \A j \in bad : k <= j
        done == SubSeq(all, 1, last)
    IN  [targets   |-> done,
         sentCount |-> Cardinality({k \in 1..Len(done) : done[k] \in okSet}),
         errors    |-> SelectSeq([k \in 1..Len(done) |->
                                    IF done[k] \in okSet THEN Skip
                                    ELSE DeliveryErr(done[k])], NotSkip)]

\* the two loops without their format checks
FanOut_noCheck(userIds, groupIds, okSet) ==
    LET all == userIds \o groupIds
    IN  [targets   |-> all,
         sentCount |-> Cardinality({k \in 1..Len(all) : all[k] \in okSet}),
         errors    |-> SelectSeq([k \in 1..Len(all) |->
                                    IF all[k] \in okSet THEN Skip
                                    ELSE DeliveryErr(all[k])], NotSkip)]

\* the loop over userIds and the loop over groupIds of sendReminderMessage:
\* okSet is the set of targets for which client.pushMessage resolves
FanOut(userIds, groupIds, okSet) ==
    LET us == SelectSeq(userIds, isValidLineUserId)
        gs == SelectSeq(groupIds, isValidLineGroupId)
        ue == [k \in 1..Len(userIds) |->
                 IF ~isValidLineUserId(userIds[k]) THEN InvalidErr(userIds[k])
                 ELSE IF userIds[k] \in okSet THEN Skip
                 ELSE DeliveryErr(userIds[k])]
        ge == [k \in 1..Len(groupIds) |->
                 IF ~isValidLineGroupId(groupIds[k]) THEN InvalidErr(groupIds[k])
                 ELSE IF groupIds[k] \in okSet THEN Skip
                 ELSE DeliveryErr(groupIds[k])]
    IN  [targets   |-> us \o gs,
         sentCount |-> Cardinality({k \in 1..Len(us \o gs) : (us \o gs)[k] \in okSet}),
         errors    |-> SelectSeq(ue, NotSkip) \o SelectSeq(ge, NotSkip)]

\* the legacy fan-out without PRESIDENT_LINE_USER_ID !== interview.user_id
FanOutLegacy_noDedup(row, e, okSet) ==
    LET u == row.user_id
        g == e.GROUP_ID
        p == e.PRESIDENT_LINE_USER_ID
        pushU == u # NoId /\ isValidLineUserId(u)
        pushG == g # NoId /\ isValidLineGroupId(g)
        pushP == p # NoId /\ isValidLineUserId(p)
        targets == (IF pushU THEN <<u>> ELSE <<>>) \o (IF pushG THEN <<g>> ELSE <<>>)
                   \o (IF pushP THEN <<p>> ELSE <<>>)
        eu == IF pushU THEN (IF u \in okSet THEN Skip ELSE DeliveryErr(u))
              ELSE IF u # NoId THEN InvalidErr(u) ELSE Skip
        eg == IF pushG THEN (IF g \in okSet THEN Skip ELSE DeliveryErr(g))
              ELSE IF g # NoId THEN InvalidErr(g) ELSE Skip
        ep == IF pushP THEN (IF p \in okSet THEN Skip ELSE DeliveryErr(p))
              ELSE IF p # NoId /\ ~isValidLineUserId(p) THEN InvalidErr(p) ELSE Skip
    IN  [targets   |-> targets,
         sentCount |-> Cardinality({k \in 1..Len(targets) : targets[k] \in okSet}),
         errors    |-> SelectSeq(<<eu, eg, ep>>, NotSkip)]

\* sendReminderMessage of the legacy targeted policy (src/unnamed/part_001):
\* the creator, process.env.GROUP_ID, the president unless it is the creator
FanOutLegacy(row, e, okSet) ==
    LET u == row.user_id
        g == e.GROUP_ID
        p == e.PRESIDENT_LINE_USER_ID
        pushU == u # NoId /\ isValidLineUserId(u)
        pushG == g # NoId /\ isValidLineGroupId(g)
        pushP == p # NoId /\ p # u /\ isValidLineUserId(p)
        targets == (IF pushU THEN <<u>> ELSE <<>>) \o (IF pushG THEN <<g>> ELSE <<>>)
                   \o (IF pushP THEN <<p>> ELSE <<>>)
        eu == IF pushU THEN (IF u \in okSet THEN Skip ELSE DeliveryErr(u))
              ELSE IF u # NoId THEN InvalidErr(u) ELSE Skip
        eg == IF pushG THEN (IF g \in okSet THEN Skip ELSE DeliveryErr(g))
              ELSE IF g # NoId THEN InvalidErr(g) ELSE Skip
        ep == IF pushP THEN (IF p \in okSet THEN Skip ELSE DeliveryErr(p))
              ELSE IF p # NoId /\ ~isValidLineUserId(p) THEN InvalidErr(p) ELSE Skip
    IN  [targets   |-> targets,
         sentCount |-> Cardinality({k \in 1..Len(targets) : targets[k] \in okSet}),
         errors    |-> SelectSeq(<<eu, eg, ep>>, NotSkip)]

\* return { success: sentCount > 0, sentCount, errors: errors.length > 0 ? errors : undefined }
\* (undefined is the empty sequence; error is never set on this path)
SendResult(fan) ==
    [success |-> fan.sentCount > 0, sentCount |-> fan.sentCount, errors |-> fan.errors]

NoRes == [success |-> FALSE, sentCount |-> 0, errors |-> <<>>]

\* the history of client.pushMessage: how often a push of the reminder
\* (id, kind) to a target resolved
Record(hist, okSet, id, kind) ==
    LET keys == {<<to, id, kind>> : to \in okSet}
    IN  [key \in DOMAIN hist \cup keys |->
            (IF key \in DOMAIN hist THEN hist[key] ELSE 0)
            + (IF key \in keys THEN 1 ELSE 0)]

\* the targets of a fan-out that are not 'U' or 'C' followed by 32 characters
Malformed(targets) ==
    {to \in SeqToSet(targets) : ~(to.pre \in {"U", "C"} /\ to.len = 33)}

\* the outcomes of a fan-out that are explored: every push resolves, none
\* does, only the first does
OkSets(targets) ==
    {SeqToSet(targets), {}} \cup (IF targets = <<>> THEN {} ELSE {{targets[1]}})

(***************************************************************************)
(* ReminderManager.processReminders, one step for each await               *)
(***************************************************************************)
NoOut ==
    [what |-> "", status |-> 0, success |-> FALSE, totalSent |-> 0, errors |-> <<>>]

\* att, okPushes, marks and failures are history: the pushes the request
\* attempted, those that resolved, the flags it wrote, and every
\* per-recipient failure of its fan-outs
IdleCycle ==
    [pc |-> "idle", list24 |-> <<>>, list3 |-> <<>>, kind |-> "24h", idx |-> 0,
     res |-> NoRes, totalSent |-> 0, errors |-> <<>>, stale |-> {},
     fetchOk |-> TRUE, att |-> 0, okPushes |-> 0, marks |-> 0, failures |-> <<>>,
     out |-> NoOut]

\* the interview objects of a list: the code reads their id and user_id
Snapshot(rows, ids) ==
    [k \in 1..Len(ids) |-> [id |-> ids[k], user_id |-> rows[ids[k]].user_id]]

CurList(cy) == IF cy.kind = "24h" THEN cy.list24 ELSE cy.list3
Cur(cy) == CurList(cy)[cy.idx]

\* a report that succeeds only when nothing failed
Report_failOnErrors(cy) ==
    [cy EXCEPT !.pc = "done", !.list24 = <<>>, !.list3 = <<>>, !.kind = "24h",
               !.idx = 0, !.res = NoRes, !.stale = {},
               !.out = [what |-> "reminders",
                        status |-> IF cy.errors = <<>> THEN 200 ELSE 500,
                        success |-> cy.errors = <<>>,
                        totalSent |-> cy.totalSent, errors |-> cy.errors]]

\* return { success: true, totalSent, errors: errors.length > 0 ? errors : undefined }
\* and the 200 answer of the endpoint
Report(cy) ==
    [cy EXCEPT !.pc = "done", !.list24 = <<>>, !.list3 = <<>>, !.kind = "24h",
               !.idx = 0, !.res = NoRes, !.stale = {},
               !.out = [what |-> "reminders", status |-> 200, success |-> TRUE,
                        totalSent |-> cy.totalSent, errors |-> cy.errors]]

\* a loop that goes through the same interview again
Advance_sameAgain(cy) == [cy EXCEPT !.pc = "send"]

\* loops that end at the first interview whose fan-out reached nobody
Advance_stopAfterFailure(cy) ==
    IF ~cy.res.success THEN Report(cy)
    ELSE IF cy.idx < Len(CurList(cy)) THEN [cy EXCEPT !.pc = "send", !.idx = cy.idx + 1]
    ELSE IF cy.kind = "24h" /\ cy.list3 # <<>>
    THEN [cy EXCEPT !.pc = "send", !.kind = "3h", !.idx = 1]
    ELSE Report(cy)

\* the two for loops: the next interview of the 24h list, then of the 3h list
Advance(cy) ==
    IF cy.idx < Len(CurList(cy)) THEN [cy EXCEPT !.pc = "send", !.idx = cy.idx + 1]
    ELSE IF cy.kind = "24h" /\ cy.list3 # <<>>
    THEN [cy EXCEPT !.pc = "send", !.kind = "3h", !.idx = 1]
    ELSE Report(cy)

\* processReminders without if (!result.success) return
AfterFetch_ignoreFailure(ok, l24, l3, staleNow) ==
    [IdleCycle EXCEPT !.pc = "send", !.list24 = l24, !.list3 = l3,
                      !.kind = IF l24 # <<>> THEN "24h" ELSE "3h", !.idx = 1,
                      !.fetchOk = ok, !.stale = staleNow]

\* processReminders up to its first loop: the result of
\* getInterviewsNeedingReminders, which is { success: false } when the select fails
AfterFetch(ok, l24, l3, staleNow) ==
    IF ~ok
    THEN [IdleCycle EXCEPT !.pc = "done", !.fetchOk = FALSE,
                           !.out = [NoOut EXCEPT !.what = "fetch", !.status = 500]]
    ELSE IF l24 = <<>> /\ l3 = <<>> THEN Report(IdleCycle)
    ELSE [IdleCycle EXCEPT !.pc = "send", !.list24 = l24, !.list3 = l3,
                           !.kind = IF l24 # <<>> THEN "24h" ELSE "3h", !.idx = 1,
                           !.stale = staleNow]

\* the if branch counting one per interview
OnSent_countOne(cy) ==
    [cy EXCEPT !.totalSent = cy.totalSent + 1,
               !.errors = cy.errors \o cy.res.errors]

\* if (reminderResult.success) { ...; totalSent += sentCount || 1; errors.push(...errors) }
OnSent(cy) ==
    [cy EXCEPT !.totalSent = cy.totalSent
                             + (IF cy.res.sentCount # 0 THEN cy.res.sentCount ELSE 1),
               !.errors = cy.errors \o cy.res.errors]

\* else { errors.push(`24h reminder for interview ${id}: ${reminderResult.error}`) }
\* reminderResult.error is undefined here: the per-recipient errors are dropped
OnNotSent(cy, res) ==
    [cy EXCEPT !.errors = Append(cy.errors, InterviewErr(cy.kind, Cur(cy).id))]

\* the flag written after every fan-out
ShouldMark_always(res) == TRUE

\* if (reminderResult.success): whether the flag is written after a fan-out
ShouldMark(res) == res.success

\* the set of targets a fan-out would push to
TargetsOf(rec, entry) ==
    IF env.policy = "broadcast"
    THEN FanOut(rec.userIds, rec.groupIds, {}).targets
    ELSE FanOutLegacy(entry, env, {}).targets

\* a request is handled in the lowest free slot
FreeSlot(c) ==
    /\ cyc[c].pc \in {"idle", "done"}
    /\ \A d \in Cycles : d < c => cyc[d].pc \notin {"idle", "done"}

\* if (!process.env.SUPABASE_URL || !process.env.SUPABASE_KEY) return 500:
\* the check is in src/app.js only, src/unnamed/part_001 has none
ConfigMissing(e) == e.policy = "broadcast" /\ ~e.SUPABASE

\* if (expectedApiKey && apiKey !== expectedApiKey) return 401
Unauthorized(e, apiKey) == e.CRON_API_KEY # "" /\ apiKey # e.CRON_API_KEY

\* app.all('/trigger-reminders') without action=interview-list, up to the end
\* of getInterviewsNeedingReminders
TriggerReminders(c, apiKey, ok) ==
    /\ FreeSlot(c)
    /\ runs < MaxRuns
    /\ runs' = runs + 1
    /\ ok => env.SUPABASE
    /\ cyc' = [cyc EXCEPT ![c] =
         IF ConfigMissing(env)
         THEN [IdleCycle EXCEPT !.pc = "done",
                                !.out = [NoOut EXCEPT !.what = "config", !.status = 500]]
         ELSE IF Unauthorized(env, apiKey)
         THEN [IdleCycle EXCEPT !.pc = "done",
                                !.out = [NoOut EXCEPT !.what = "auth", !.status = 401]]
         ELSE LET l24 == interviews24h(interviews, now)
                  l3 == interviews3h(interviews, now)
              IN  AfterFetch(ok, Snapshot(interviews, l24), Snapshot(interviews, l3),
                             ({<<l24[k], "24h">> : k \in 1..Len(l24)}
                              \cup {<<l3[k], "3h">> : k \in 1..Len(l3)}) \cap marked)]
    /\ UNCHANGED <<now, env, interviews, nextId, line_users, line_groups,
                   adder, delivered, malformed, marked, late, reply, hook>>

\* await this.sendReminderMessage(interview, kind), and the else branch of
\* if (reminderResult.success)
SendWith(c, okSet, uOk, fOk, gOk) ==
    /\ cyc[c].pc = "send"
    /\ LET cy == cyc[c]
           entry == Cur(cy)
           rec == getReminderRecipientIds(line_users, line_groups, interviews, env,
                                          uOk, fOk, gOk)
           fan == IF env.policy = "broadcast"
                  THEN FanOut(rec.userIds, rec.groupIds, okSet)
                  ELSE FanOutLegacy(entry, env, okSet)
           res == SendResult(fan)
           cy1 == [cy EXCEPT !.att = cy.att + Len(fan.targets),
                             !.okPushes = cy.okPushes + fan.sentCount,
                             !.failures = cy.failures \o fan.errors]
       IN  /\ delivered' = Record(delivered, okSet, entry.id, cy.kind)
           /\ malformed' = malformed \cup Malformed(fan.targets)
           /\ late' = IF <<entry.id, cy.kind>> \in cy.stale /\ fan.targets # <<>>
                      THEN late \cup {<<entry.id, cy.kind>>} ELSE late
           /\ cyc' = [cyc EXCEPT ![c] =
                        IF ShouldMark(res)
                        THEN [cy1 EXCEPT !.pc = "mark", !.res = res]
                        ELSE Advance(OnNotSent(cy1, res))]
    /\ UNCHANGED <<now, env, interviews, nextId, line_users, line_groups,
                   runs, adder, marked, reply, hook>>

Send(c, uOk, fOk, gOk) ==
    /\ cyc[c].pc = "send"
    /\ \E okSet \in OkSets(TargetsOf(getReminderRecipientIds(line_users, line_groups,
                                        interviews, env, uOk, fOk, gOk), Cur(cyc[c]))) :
          SendWith(c, okSet, uOk, fOk, gOk)

\* await InterviewManager.markReminderSent(interview.id, kind), whose result is
\* not looked at, and the rest of the if branch
Mark(c, ok) ==
    /\ cyc[c].pc = "mark"
    /\ LET cy == cyc[c]
           id == Cur(cy).id
           wrote == ok /\ id \in DOMAIN interviews
       IN  /\ interviews' = WriteFlag(interviews, id, cy.kind, ok)
           /\ marked' = IF wrote THEN marked \cup {<<id, cy.kind>>} ELSE marked
           /\ cyc' = [cyc EXCEPT ![c] =
                        Advance(OnSent([cy EXCEPT !.marks = cy.marks
                                                   + (IF wrote THEN 1 ELSE 0)]))]
    /\ UNCHANGED <<now, env, nextId, line_users, line_groups, runs, adder,
                   delivered, malformed, late, reply, hook>>

(***************************************************************************)
(* ReminderManager.sendInterviewListToEveryone                             *)
(***************************************************************************)
\* the two loops of sendInterviewListToEveryone: an invalid identifier is
\* skipped without an errors entry
FanOutList(userIds, groupIds, okSet) ==
    LET us == SelectSeq(userIds, isValidLineUserId)
        gs == SelectSeq(groupIds, isValidLineGroupId)
        all == us \o gs
    IN  [targets   |-> all,
         sentCount |-> Cardinality({k \in 1..Len(all) : all[k] \in okSet}),
         errors    |-> SelectSeq([k \in 1..Len(all) |->
                                    IF all[k] \in okSet THEN Skip
                                    ELSE DeliveryErr(all[k])], NotSkip)]

\* a list broadcast that marks the 24h reminder of every interview as sent
TriggerListWith_marking(c, apiKey, ok, okSet, uOk, fOk, gOk) ==
    /\ FreeSlot(c)
    /\ runs < MaxRuns
    /\ runs' = runs + 1
    /\ okSet = {}
    /\ cyc' = [cyc EXCEPT ![c] =
                 [IdleCycle EXCEPT !.pc = "done",
                    !.out = [NoOut EXCEPT !.what = "list", !.status = 200,
                                          !.success = TRUE]]]
    /\ interviews' = [i \in DOMAIN interviews |->
                         [interviews[i] EXCEPT !.reminder_24h_sent = TRUE]]
    /\ UNCHANGED <<now, env, nextId, line_users, line_groups, adder, delivered,
                   malformed, marked, late, reply, hook>>

\* app.all('/trigger-reminders') with action=interview-list
TriggerListWith(c, apiKey, ok, okSet, uOk, fOk, gOk) ==
    /\ FreeSlot(c)
    /\ runs < MaxRuns
    /\ runs' = runs + 1
    /\ ok => env.SUPABASE
    /\ LET rec == getReminderRecipientIds(line_users, line_groups, interviews, env,
                                          uOk, fOk, gOk)
           fan == FanOutList(rec.userIds, rec.groupIds, okSet)
           rejected == ConfigMissing(env) \/ Unauthorized(env, apiKey)
       IN  /\ rejected \/ ~ok => okSet = {}
           /\ cyc' = [cyc EXCEPT ![c] =
                IF ConfigMissing(env)
                THEN [IdleCycle EXCEPT !.pc = "done",
                        !.out = [NoOut EXCEPT !.what = "config", !.status = 500]]
                ELSE IF Unauthorized(env, apiKey)
                THEN [IdleCycle EXCEPT !.pc = "done",
                        !.out = [NoOut EXCEPT !.what = "auth", !.status = 401]]
                ELSE IF ~ok
                THEN [IdleCycle EXCEPT !.pc = "done", !.fetchOk = FALSE,
                        !.out = [NoOut EXCEPT !.what = "list", !.status = 500]]
                ELSE [IdleCycle EXCEPT !.pc = "done",
                        !.att = Len(fan.targets), !.okPushes = fan.sentCount,
                        !.failures = fan.errors,
                        !.out = [what |-> "list", status |-> 200, success |-> TRUE,
                                 totalSent |-> fan.sentCount, errors |-> fan.errors]]]
           /\ malformed' = IF rejected \/ ~ok THEN malformed
                           ELSE malformed \cup Malformed(fan.targets)
    /\ UNCHANGED <<now, env, interviews, nextId, line_users, line_groups,
                   adder, delivered, marked, late, reply, hook>>

TriggerList(c, apiKey, ok, uOk, fOk, gOk) ==
    LET rec == getReminderRecipientIds(line_users, line_groups, interviews, env,
                                       uOk, fOk, gOk)
    IN  \E okSet \in OkSets(FanOutList(rec.userIds, rec.groupIds, {}).targets) :
           TriggerListWith(c, apiKey, ok, okSet, uOk, fOk, gOk)

(***************************************************************************)
(* The webhook: contact tracking and the owner's commands                  *)
(***************************************************************************)
\* ContactTracker.recordUser: upsert { user_id, active: true }
recordUser(userId) ==
    /\ line_users' = [u \in DOMAIN line_users \cup {userId} |->
                         IF u = userId THEN TRUE ELSE line_users[u]]
    /\ UNCHANGED <<now, env, interviews, nextId, line_groups, cyc, runs, adder,
                   delivered, malformed, marked, late, reply, hook>>

\* ContactTracker.setUserInactive: update { active: false } where user_id = userId
setUserInactive(userId) ==
    /\ userId \in DOMAIN line_users
    /\ line_users' = [line_users EXCEPT ![userId] = FALSE]
    /\ UNCHANGED <<now, env, interviews, nextId, line_groups, cyc, runs, adder,
                   delivered, malformed, marked, late, reply, hook>>

\* ContactTracker.recordGroup
recordGroup(groupId) ==
    /\ line_groups' = [g \in DOMAIN line_groups \cup {groupId} |->
                          IF g = groupId THEN TRUE ELSE line_groups[g]]
    /\ UNCHANGED <<now, env, interviews, nextId, line_users, cyc, runs, adder,
                   delivered, malformed, marked, late, reply, hook>>

\* ContactTracker.setGroupInactive
setGroupInactive(groupId) ==
    /\ groupId \in DOMAIN line_groups
    /\ line_groups' = [line_groups EXCEPT ![groupId] = FALSE]
    /\ UNCHANGED <<now, env, interviews, nextId, line_users, cyc, runs, adder,
                   delivered, malformed, marked, late, reply, hook>>

\* no command is waiting for its reply
NoReply == [op |-> "", userId |-> NoId, id |-> 0, success |-> FALSE]

\* an update that also clears the reminder flags
Updated_resetFlags(row, dbField, value) ==
    [row EXCEPT !.interview_date = IF dbField = "interview_date" THEN value ELSE @,
                !.interview_time = IF dbField = "interview_time" THEN value ELSE @,
                !.reminder_24h_sent = FALSE, !.reminder_3h_sent = FALSE]

\* an update that runs the late-creation guard again on the new date and time
Updated_guardAgain(row, dbField, value) ==
    LET r == [row EXCEPT
                !.interview_date = IF dbField = "interview_date" THEN value ELSE @,
                !.interview_time = IF dbField = "interview_time" THEN value ELSE @]
    IN  [r EXCEPT !.reminder_24h_sent = diffMs(r, now) < 3 * Hour,
                  !.reminder_3h_sent = diffMs(r, now) < Hour]

\* .update(updates) with updates = { [dbField]: value }, where dbField is a
\* column of fieldMap
Updated(row, dbField, value) ==
    IF dbField = "interview_date" THEN [row EXCEPT !.interview_date = value]
    ELSE IF dbField = "interview_time" THEN [row EXCEPT !.interview_time = value]
    ELSE row

\* an update that filters by id alone, whoever sent the command
updateInterview_anyOwner(userId, interviewId, dbField, value, ok) ==
    /\ reply = NoReply
    /\ interviews' = IF ~ok THEN interviews
                     ELSE [i \in DOMAIN interviews |->
                             IF i = interviewId
                             THEN Updated(interviews[i], dbField, value)
                             ELSE interviews[i]]
    /\ reply' = [op |-> "update", userId |-> userId, id |-> interviewId,
                 success |-> ok]
    /\ UNCHANGED <<now, env, nextId, line_users, line_groups, cyc, runs, adder,
                   delivered, malformed, marked, late, hook>>

\* InterviewManager.updateInterview: update ... where id = and user_id =,
\* then return { success: true, data: data[0] } unless the store raised an error
updateInterview(userId, interviewId, dbField, value, ok) ==
    /\ reply = NoReply
    /\ interviews' = IF ~ok THEN interviews
                     ELSE [i \in DOMAIN interviews |->
                             IF i = interviewId /\ interviews[i].user_id = userId
                             THEN Updated(interviews[i], dbField, value)
                             ELSE interviews[i]]
    /\ reply' = [op |-> "update", userId |-> userId, id |-> interviewId,
                 success |-> ok]
    /\ UNCHANGED <<now, env, nextId, line_users, line_groups, cyc, runs, adder,
                   delivered, malformed, marked, late, hook>>

\* InterviewManager.deleteInterview: delete ... where id = and user_id =,
\* then return { success: true } unless the store raised an error
deleteInterview(userId, interviewId, ok) ==
    /\ reply = NoReply
    /\ interviews' = IF ~ok THEN interviews
                     ELSE [i \in {k \in DOMAIN interviews :
                                    ~(k = interviewId /\ interviews[k].user_id = userId)}
                             |-> interviews[i]]
    /\ reply' = [op |-> "delete", userId |-> userId, id |-> interviewId,
                 success |-> ok]
    /\ UNCHANGED <<now, env, nextId, line_users, line_groups, cyc, runs, adder,
                   delivered, malformed, marked, late, hook>>

\* await client.replyMessage(replyToken, ...) of handleUpdateCommand and
\* handleDeleteCommand: the reply leaves right after the store's answer
replyMessage ==
    /\ reply # NoReply
    /\ reply' = NoReply
    /\ UNCHANGED <<now, env, interviews, nextId, line_users, line_groups, cyc, runs,
                   adder, delivered, malformed, marked, late, hook>>

\* res.json(...) / res.status(...).json(...): the answer leaves in the same
\* turn of the event loop in which the request reached its end
Respond(c) ==
    /\ cyc[c].pc = "done"
    /\ cyc' = [cyc EXCEPT ![c] = IdleCycle]
    /\ UNCHANGED <<now, env, interviews, nextId, line_users, line_groups, runs,
                   adder, delivered, malformed, marked, late, reply, hook>>

\* no answer is waiting to leave
Quiet == reply = NoReply /\ \A c \in Cycles : cyc[c].pc # "done"


(***************************************************************************)
(* Deployments, the clock and the inputs                                   *)
(***************************************************************************)
PresidentId == LineId("U", 33, 9)
EnvGroup == LineId("C", 33, 2)
RoomId == LineId("R", 33, 3)        \* a room identifier set as GROUP_ID

\* src/app.js: every tracked contact, no pre-shared key
Broadcast ==
    [policy |-> "broadcast", PRESIDENT_LINE_USER_ID |-> PresidentId,
     GROUP_ID |-> RoomId, GROUP_IDS |-> <<>>, CRON_API_KEY |-> "",
     SUPABASE |-> TRUE]

\* src/unnamed/part_001: the creator, one group and the president, with a key
Legacy ==
    [policy |-> "legacy", PRESIDENT_LINE_USER_ID |-> UserA,
     GROUP_ID |-> EnvGroup, GROUP_IDS |-> <<>>, CRON_API_KEY |-> "secret",
     SUPABASE |-> TRUE]

Envs == {Broadcast, Legacy}

ApiKeys == {"secret", "wrong"}

Noon == 12 * Hour

\* the instants at which something is observed, in increasing order: 24 h,
\* 23 h 40 min and 3 h before noon of day 1
NowGrid == << Noon, Noon + Hour \div 3, DayMs + 9 * Hour >>

Tick ==
    /\ \E k \in 1..(Len(NowGrid) - 1) : now = NowGrid[k] /\ now' = NowGrid[k + 1]
    /\ UNCHANGED <<env, interviews, nextId, line_users, line_groups, cyc, runs,
                   adder, delivered, malformed, marked, late, reply, hook>>

\* the owner of the k-th row of an initial table: a follower, then the
\* account of /create-test-interview
OwnerOf(k) == IF k = 1 THEN UserA ELSE TestUserId

\* the tables a run can start from: one or two interviews at noon of day 1,
\* none of whose 3h reminders was sent
StoreSizes == {1, 2}

InitStores ==
    UNION { [1..n -> {[NewRow(NoId, 1, Noon) EXCEPT !.reminder_24h_sent = b]
                        : b \in BOOLEAN}] : n \in StoreSizes }

WithOwners(rows) == [k \in DOMAIN rows |-> [rows[k] EXCEPT !.user_id = OwnerOf(k)]]

\* pending: the store writes of ContactTracker that are on their way, in the
\* order in which they were issued; last: history, the last follow/unfollow
\* or join/leave event handled for an identifier
IdleHook == [pending |-> <<>>, last |-> <<>>]

InitCommon ==
    /\ cyc = [c \in Cycles |-> IdleCycle]
    /\ runs = 0
    /\ adder = IdleAdder
    /\ line_users = <<>>
    /\ line_groups = [g \in {GroupA} |-> TRUE]
    /\ delivered = <<>>
    /\ malformed = {}
    /\ marked = {}
    /\ late = {}
    /\ reply = NoReply
    /\ hook = IdleHook

(***************************************************************************)
(* Spec: the scheduler calls /trigger-reminders while an earlier request   *)
(* is still being handled; the store accepts every write                   *)
(***************************************************************************)
Init ==
    /\ now = NowGrid[1]
    /\ env \in Envs
    /\ interviews = WithOwners([k \in {1} |-> NewRow(NoId, 1, Noon)])
    /\ nextId = 2
    /\ InitCommon

Next ==
    \/ \E c \in Cycles : Respond(c)
    \/ /\ Quiet
       /\ \/ Tick
          \/ \E c \in Cycles, k \in ApiKeys, ok \in BOOLEAN : TriggerReminders(c, k, ok)
          \/ \E c \in Cycles : Send(c, TRUE, TRUE, TRUE)
          \/ \E c \in Cycles : Mark(c, TRUE)

Spec == Init /\ [][Next]_vars

(***************************************************************************)
(* SpecSeq: one request at a time, in both trigger modes; a select or a    *)
(* flag write can fail (the three selects of a fan-out fail together)      *)
(***************************************************************************)
InitSeq ==
    /\ now = NowGrid[1]
    /\ env \in Envs
    /\ \E rows \in InitStores :
          /\ interviews = WithOwners(rows)
          /\ nextId = Cardinality(DOMAIN rows) + 1
    /\ InitCommon

NextSeq ==
    \/ Respond(1)
    \/ /\ Quiet
       /\ \/ Tick
          \/ \E k \in ApiKeys, ok \in BOOLEAN : TriggerReminders(1, k, ok)
          \/ \E r \in BOOLEAN : Send(1, r, r, r)
          \/ \E ok \in BOOLEAN : Mark(1, ok)
          \/ \E k \in ApiKeys, ok, r \in BOOLEAN : TriggerList(1, k, ok, r, r, r)

SpecSeq == InitSeq /\ [][NextSeq]_vars

(***************************************************************************)
(* SpecEval: one evaluation pass of getInterviewsNeedingReminders over two *)
(* interviews 21 h apart, at instants on and around the window bounds      *)
(***************************************************************************)
\* hours until the first interview, in hundredths
EvalDiffs ==
    {n * (Hour \div 100) :
        n \in {2500, 2451, 2450, 2400, 2350, 2349, 1200,
               351, 350, 300, 250, 249, 100, -100}}

EvalRows ==
    [{1, 2} -> {[NewRow(UserA, 2, Hour) EXCEPT !.reminder_24h_sent = a,
                                               !.reminder_3h_sent = b]
                  : a, b \in BOOLEAN}]

InitEval ==
    /\ \E d \in EvalDiffs : now = 2 * DayMs + Hour - d
    /\ env = Broadcast
    /\ \E rows \in EvalRows :
          interviews = [rows EXCEPT ![2].interview_time = 22 * Hour]
    /\ nextId = 3
    /\ InitCommon

NextEval ==
    \/ Respond(1)
    \/ /\ Quiet
       /\ \E k \in ApiKeys, ok \in BOOLEAN : TriggerReminders(1, k, ok)

SpecEval == InitEval /\ [][NextEval]_vars

(***************************************************************************)
(* SpecGuard: addInterview of an interview at noon of day 1, called at     *)
(* instants on and around the bounds of the late-creation guard            *)
(***************************************************************************)
\* hours until the interview when it is created, in hundredths
GuardDiffs ==
    {n * (Hour \div 100) : n \in {2500, 301, 300, 299, 200, 100, 99, 50, 0, -100}}

InitGuard ==
    /\ \E d \in GuardDiffs : now = DayMs + Noon - d
    /\ env = Broadcast
    /\ interviews = <<>>
    /\ nextId = 1
    /\ InitCommon

NextGuard ==
    \/ \E ok \in BOOLEAN : AddInsert(UserA, 1, Noon, ok)
    \/ AddGuard
    \/ \E ok \in BOOLEAN : AddMark24(ok)
    \/ \E ok \in BOOLEAN : AddMark3(ok)

SpecGuard == InitGuard /\ [][NextGuard]_vars

(***************************************************************************)
(* SpecLive: the scheduler fires on a fixed cadence shorter than the        *)
(* window; the first request comes before a window opens, the next one a    *)
(* gap later; the key is right, selects and writes succeed and at least     *)
(* one push of a fan-out resolves                                           *)
(***************************************************************************)
Minute == Hour \div 60

\* how long before the opening of a window the first request comes, and the
\* gap to the next one, in minutes
LivePhases == {<<1, 10>>, <<10, 10>>, <<1, 59>>, <<30, 59>>, <<59, 59>>}

\* the instants at which the 24h and the 3h window of an interview at noon
\* of day 1 open
LiveOpens == {DayMs + Noon - 49 * (Hour \div 2), DayMs + Noon - 7 * (Hour \div 2)}

LiveStarts == {open - ph[1] * Minute : open \in LiveOpens, ph \in LivePhases}

InitLive ==
    /\ now \in LiveStarts
    /\ env \in Envs
    /\ \E b \in BOOLEAN :
          interviews = WithOwners([k \in {1} |->
                          [NewRow(NoId, 1, Noon) EXCEPT !.reminder_24h_sent = b]])
    /\ nextId = 2
    /\ InitCommon

\* the cadence: the clock reaches the next firing once the request of this
\* firing was answered
TickLive ==
    /\ cyc[1].pc = "idle" /\ runs = 1
    /\ \E open \in LiveOpens, ph \in LivePhases :
          /\ now = open - ph[1] * Minute
          /\ now' = now + ph[2] * Minute
    /\ UNCHANGED <<env, interviews, nextId, line_users, line_groups, cyc, runs,
                   adder, delivered, malformed, marked, late, reply, hook>>

NextLive ==
    \/ Respond(1)
    \/ TickLive
    \/ (now \in LiveStarts <=> runs = 0) /\ TriggerReminders(1, env.CRON_API_KEY, TRUE)
    \/ /\ cyc[1].pc = "send"
       /\ \E okSet \in OkSets(TargetsOf(getReminderRecipientIds(line_users,
                 line_groups, interviews, env, TRUE, TRUE, TRUE), Cur(cyc[1]))) \ {{}} :
             SendWith(1, okSet, TRUE, TRUE, TRUE)
    \/ Mark(1, TRUE)

SpecLive == InitLive /\ [][NextLive]_vars /\ WF_vars(NextLive)

(***************************************************************************)
(* SpecStore: everything that writes to the tables, one request of each     *)
(* kind at a time: owners add, reschedule and delete, contacts come and     *)
(* go, reminder cycles and list broadcasts run, in the broadcast deployment *)
(***************************************************************************)
\* the accounts that send commands: the owner of the first interview and
\* another account, which adds an interview at 09:30 of day 1
Owners == {UserA, UserB}

\* the ids a command names: the first interview and an id not in use at first
CommandIds == {1, 3}

\* the updates an owner sends: a new date, a new time, and a new value for a
\* column that plays no part in the reminders
Updates == {<<"interview_date", 2>>, <<"interview_time", 19 * (Hour \div 2)>>,
            <<"reason", 0>>}

InitStore ==
    /\ now = NowGrid[1]
    /\ env = Broadcast
    /\ interviews = WithOwners([k \in {1} |-> NewRow(NoId, 1, Noon)])
    /\ nextId = 2
    /\ InitCommon

\* every read and write of the store succeeds and every push resolves,
\* except that an owner's update or delete can be refused by the store
NextStore ==
    \/ Respond(1)
    \/ replyMessage
    \/ /\ Quiet
       /\ \/ Tick
          \/ TriggerReminders(1, "", TRUE)
          \/ /\ cyc[1].pc = "send"
             /\ SendWith(1, SeqToSet(TargetsOf(getReminderRecipientIds(line_users,
                            line_groups, interviews, env, TRUE, TRUE, TRUE),
                            Cur(cyc[1]))), TRUE, TRUE, TRUE)
          \/ Mark(1, TRUE)
          \/ TriggerList(1, "", TRUE, TRUE, TRUE, TRUE)
          \/ AddInsert(UserB, 1, 19 * (Hour \div 2), TRUE)
          \/ AddGuard
          \/ AddMark24(TRUE)
          \/ AddMark3(TRUE)
          \/ \E u \in Owners, i \in CommandIds, up \in Updates, ok \in BOOLEAN :
                updateInterview(u, i, up[1], up[2], ok)
          \/ \E u \in Owners, i \in CommandIds, ok \in BOOLEAN :
                deleteInterview(u, i, ok)
          \/ recordUser(UserB)
          \/ setUserInactive(UserB)

SpecStore == InitStore /\ [][NextStore]_vars

(***************************************************************************)
(* Properties                                                              *)
(***************************************************************************)
IdsOf(list) == {list[k].id : k \in 1..Len(list)}

\* a step in which request c comes back from getInterviewsNeedingReminders
\* with its two lists
Classified(c) ==
    /\ cyc[c].pc \in {"idle", "done"}
    /\ cyc'[c].fetchOk
    /\ \/ cyc'[c].pc = "send"
       \/ cyc'[c].pc = "done" /\ cyc'[c].out.what = "reminders"

\* the start of interview i lies between lo and hi milliseconds after t
StartsWithin(i, t, lo, hi) ==
    /\ interviewDateTime(interviews[i]) - t >= lo
    /\ interviewDateTime(interviews[i]) - t <= hi

\* the reminder of a kind for interview i is due at t, by the clock alone
Due(i, kind, t) ==
    IF kind = "24h" THEN StartsWithin(i, t, 84600000, 88200000)
    ELSE StartsWithin(i, t, 9000000, 12600000)

\* C1: with one cycle at a time, no cycle pushes a reminder that an earlier
\* cycle delivered and whose flag it wrote; and a cycle that starts when the
\* flag of every reminder due at that instant is already true finds nothing
\* to send and ends at once with nothing pushed.
C1_NoResendAfterMark ==
    [][/\ late' = {}
       /\ \A c \in Cycles :
             ( /\ Classified(c)
               /\ \A i \in DOMAIN interviews, kind \in Kinds :
                     Due(i, kind, now) => SentFlag(interviews[i], kind) )
             => /\ cyc'[c].pc = "done"
                /\ cyc'[c].att = 0
                /\ cyc'[c].out.totalSent = 0]_vars

\* a second cycle has ended without a push, at an instant at which the 24h
\* reminder that an earlier cycle delivered and marked is still due
C1_Witness ==
    /\ runs = 2
    /\ cyc[1].pc = "done" /\ cyc[1].out.what = "reminders"
    /\ cyc[1].att = 0 /\ cyc[1].marks = 0
    /\ \E i \in DOMAIN interviews :
          /\ <<i, "24h">> \in marked
          /\ Due(i, "24h", now)
          /\ \E to \in {UserA, EnvGroup} : <<to, i, "24h">> \in DOMAIN delivered

\* C2: whatever the interleaving of overlapping cycles, a recipient gets
\* at most one push of a reminder kind of an interview.
C2_AtMostOncePerRecipient ==
    \A key \in DOMAIN delivered : delivered[key] <= 1

\* C3: a cycle writes a reminder flag only after a fan-out of its own for
\* that interview and kind in which at least one push resolved; a fan-out
\* without a resolved push leaves the table as it is and is not followed by
\* a write; and a fetch lists every fetched interview whose reminder is due
\* and whose flag is still false.
C3_MarkOnlyAfterDelivery ==
    [][\A c \in Cycles :
          /\ \A i \in DOMAIN interviews \cap DOMAIN interviews', kind \in Kinds :
                ~SentFlag(interviews[i], kind) /\ SentFlag(interviews'[i], kind)
                => \E d \in Cycles :
                      /\ cyc[d].pc = "mark"
                      /\ Cur(cyc[d]).id = i /\ cyc[d].kind = kind
                      /\ cyc[d].res.sentCount >= 1
                      /\ cyc[d].okPushes >= 1
                      /\ \E key \in DOMAIN delivered : key[2] = i /\ key[3] = kind
          /\ cyc'[c].pc = "mark" /\ cyc[c].pc # "mark"
                => cyc'[c].okPushes > cyc[c].okPushes
          /\ cyc[c].pc = "send" /\ cyc'[c].okPushes = cyc[c].okPushes
                => interviews' = interviews /\ cyc'[c].pc # "mark"
          /\ Classified(c)
                => \A i \in allInterviews(interviews, now) :
                      /\ Due(i, "24h", now) /\ ~interviews[i].reminder_24h_sent
                            => i \in IdsOf(cyc'[c].list24)
                      /\ Due(i, "3h", now) /\ ~interviews[i].reminder_3h_sent
                            => i \in IdsOf(cyc'[c].list3)]_vars

\* a cycle has ended whose fan-out for the 24h reminder of an interview had
\* no resolved push: it wrote no flag and the flag is still false
C3_Witness ==
    /\ cyc[1].pc = "done" /\ cyc[1].out.what = "reminders"
    /\ cyc[1].att > 0 /\ cyc[1].okPushes = 0 /\ cyc[1].marks = 0
    /\ \E i \in DOMAIN interviews :
          /\ InterviewErr("24h", i) \in SeqToSet(cyc[1].out.errors)
          /\ ~interviews[i].reminder_24h_sent
          /\ Due(i, "24h", now)

\* C4: a fetched interview is in the 24h list of an evaluation pass if and
\* only if its reminder_24h_sent is false and its start is at least 23.5 h
\* (84 600 000 ms) and at most 24.5 h (88 200 000 ms) after now.
C4_Window24h ==
    [][\A c \in Cycles :
          Classified(c)
          => \A i \in allInterviews(interviews, now) :
                i \in IdsOf(cyc'[c].list24)
                <=> /\ ~interviews[i].reminder_24h_sent
                    /\ StartsWithin(i, now, 84600000, 88200000)]_vars

\* an interview that starts exactly 23.5 h after now is in the 24h list
C4_Witness ==
    /\ cyc[1].pc = "send"
    /\ \E i \in IdsOf(cyc[1].list24) : interviewDateTime(interviews[i]) - now = 84600000

\* C5: a fetched interview is in the 3h list of an evaluation pass if and
\* only if its reminder_3h_sent is false and its start is at least 2.5 h
\* (9 000 000 ms) and at most 3.5 h (12 600 000 ms) after now, whatever its
\* reminder_24h_sent.
C5_Window3h ==
    [][\A c \in Cycles :
          Classified(c)
          => \A i \in allInterviews(interviews, now) :
                i \in IdsOf(cyc'[c].list3)
                <=> /\ ~interviews[i].reminder_3h_sent
                    /\ StartsWithin(i, now, 9000000, 12600000)]_vars

\* an interview that starts exactly 3.5 h after now and whose 24h reminder
\* was never sent is in the 3h list
C5_Witness ==
    /\ cyc[1].pc = "send"
    /\ \E i \in IdsOf(cyc[1].list3) :
          /\ interviewDateTime(interviews[i]) - now = 12600000
          /\ ~interviews[i].reminder_24h_sent

\* C6: when addInterview has returned after an insert and flag writes that
\* all succeeded, reminder_24h_sent of the new row is true exactly if the
\* start was less than 3 h (10 800 000 ms) away, and reminder_3h_sent exactly
\* if it was less than 1 h (3 600 000 ms) away.
C6_LateCreationGuard ==
    adder.pc = "done" /\ adder.success /\ ~adder.failed
    => LET row == interviews[adder.id]
           away == interviewDateTime(row) - now
       IN  /\ row.reminder_24h_sent <=> away < 10800000
           /\ row.reminder_3h_sent <=> away < 3600000

\* an interview created 2 h before its start has (24h = true, 3h = false)
C6_Witness ==
    /\ adder.pc = "done" /\ adder.success /\ ~adder.failed
    /\ interviewDateTime(interviews[adder.id]) - now = 7200000
    /\ interviews[adder.id].reminder_24h_sent
    /\ ~interviews[adder.id].reminder_3h_sent

\* C7: no identifier other than 'U' or 'C' followed by 32 characters is ever
\* passed to pushMessage, in a reminder cycle of either policy or in the
\* interview-list broadcast.
C7_NoMalformedPush == malformed = {}

\* a request has pushed to well-formed recipients and rejected a malformed one
C7_Witness ==
    \E c \in Cycles :
       /\ cyc[c].att > 0
       /\ \E k \in 1..Len(cyc[c].failures) : cyc[c].failures[k].type = "invalid"

\* C8: a fan-out with k >= 1 resolved pushes and m failed or invalid
\* recipients is followed by one flag write of that kind (the flag is true
\* when the store accepts the write), totalSent grows by k and the report by
\* m entries; and the totalSent of a finished cycle is the number of pushes
\* of the cycle that resolved.
C8_PartialFailureAccounting ==
    [][\A c \in Cycles :
          /\ cyc[c].pc = "send" /\ cyc'[c].okPushes > cyc[c].okPushes
                => /\ cyc'[c].pc = "mark"
                   /\ cyc'[c].res.sentCount = cyc'[c].okPushes - cyc[c].okPushes
                   /\ Len(cyc'[c].res.errors)
                         = Len(cyc'[c].failures) - Len(cyc[c].failures)
          /\ cyc[c].pc = "mark" /\ cyc'[c].pc # "mark"
                => /\ cyc'[c].totalSent = cyc[c].totalSent + cyc[c].res.sentCount
                   /\ cyc'[c].errors = cyc[c].errors \o cyc[c].res.errors
                   /\ cyc'[c].marks > cyc[c].marks
                         => SentFlag(interviews'[Cur(cyc[c]).id], cyc[c].kind)
          /\ cyc'[c].pc = "done" /\ cyc'[c].out.what = "reminders"
                => cyc'[c].out.totalSent = cyc'[c].okPushes]_vars

\* a cycle has ended with one resolved push, two failed or invalid
\* recipients, the flag written and two entries in its report
C8_Witness ==
    /\ cyc[1].pc = "done" /\ cyc[1].out.what = "reminders"
    /\ cyc[1].att = 2 /\ cyc[1].okPushes = 1 /\ cyc[1].marks = 1
    /\ cyc[1].out.totalSent = 1
    /\ Len(cyc[1].out.errors) = 2
    /\ Len(cyc[1].failures) = 2

\* C9: a request whose candidate fetch failed has ended with a top-level
\* error (status 500, success false), has attempted no push and has written
\* no flag.
C9_FetchFailureAborts ==
    \A c \in Cycles :
       ~cyc[c].fetchOk
       => /\ cyc[c].pc = "done"
          /\ cyc[c].out.status = 500 /\ ~cyc[c].out.success
          /\ cyc[c].att = 0 /\ cyc[c].marks = 0
          /\ cyc[c].list24 = <<>> /\ cyc[c].list3 = <<>>

\* the fetch of a reminder cycle has failed while a reminder was due
C9_Witness ==
    /\ ~cyc[1].fetchOk /\ cyc[1].out.what = "fetch"
    /\ \E i \in DOMAIN interviews :
          Due(i, "24h", now) /\ ~interviews[i].reminder_24h_sent

\* C10: the report of a finished cycle holds every per-recipient failure of
\* the fan-outs of the cycle.
C10_EveryFailureReported ==
    \A c \in Cycles :
       cyc[c].pc = "done" /\ cyc[c].out.what = "reminders"
       => \A k \in 1..Len(cyc[c].failures) :
             cyc[c].failures[k] \in SeqToSet(cyc[c].out.errors)

\* a step of request c other than the clock's
Moved(c) == cyc'[c] # cyc[c]

\* some push of the reminder of a kind for interview i has resolved
Delivered(i, kind) == \E key \in DOMAIN delivered : key[2] = i /\ key[3] = kind

\* C11: a cycle whose fetch succeeded ends with status 200 and success
\* true whatever its deliveries did; a fan-out in which no push resolved adds
\* one entry for the interview to the report's errors and leaves the table,
\* so the flag, as it was.
C11_FailuresAreData ==
    [][\A c \in Cycles :
          /\ cyc'[c].pc = "done" /\ cyc'[c].out.what = "reminders"
                => /\ cyc'[c].out.status = 200 /\ cyc'[c].out.success
                   /\ cyc'[c].out.totalSent = cyc'[c].totalSent
                   /\ cyc'[c].out.errors = cyc'[c].errors
          /\ cyc[c].pc = "send" /\ Moved(c) /\ cyc'[c].okPushes = cyc[c].okPushes
                => /\ cyc'[c].errors
                         = Append(cyc[c].errors,
                                  InterviewErr(cyc[c].kind, Cur(cyc[c]).id))
                   /\ interviews' = interviews]_vars

\* a cycle all of whose pushes failed has answered 200 with success true, an
\* entry for the interview in errors, and the flag still false
C11_Witness ==
    /\ cyc[1].pc = "done" /\ cyc[1].out.what = "reminders"
    /\ cyc[1].out.status = 200 /\ cyc[1].out.success /\ cyc[1].out.totalSent = 0
    /\ cyc[1].att >= 2 /\ cyc[1].okPushes = 0
    /\ \E i \in DOMAIN interviews :
          /\ cyc[1].out.errors = <<InterviewErr("24h", i)>>
          /\ ~interviews[i].reminder_24h_sent

\* C12: when the flag write of a cycle does not take effect, the cycle's
\* errors get an entry for it, beyond the entries of the fan-out.
C12_WriteFailureReported ==
    [][\A c \in Cycles :
          ( /\ cyc[c].pc = "mark" /\ Moved(c)
            /\ ~SentFlag(interviews'[Cur(cyc[c]).id], cyc[c].kind) )
          => Len(cyc'[c].errors) > Len(cyc[c].errors) + Len(cyc[c].res.errors)]_vars

\* C13: a flag write that does not take effect leaves the flag false after
\* a delivery; a later fetch lists the interview again while the reminder is
\* due, so it is sent again; and no flag is ever true by a cycle's write
\* without a resolved push of that reminder.
C13_LostWriteCausesDuplicate ==
    [][/\ \A c \in Cycles :
             /\ cyc[c].pc = "mark" /\ Moved(c) /\ cyc'[c].marks = cyc[c].marks
                   => /\ ~SentFlag(interviews'[Cur(cyc[c]).id], cyc[c].kind)
                      /\ Delivered(Cur(cyc[c]).id, cyc[c].kind)
             /\ Classified(c)
                   => \A i \in DOMAIN interviews :
                         /\ ( /\ Due(i, "24h", now) /\ Delivered(i, "24h")
                              /\ ~interviews[i].reminder_24h_sent )
                               => i \in IdsOf(cyc'[c].list24)
                         /\ ( /\ Due(i, "3h", now) /\ Delivered(i, "3h")
                              /\ ~interviews[i].reminder_3h_sent )
                               => i \in IdsOf(cyc'[c].list3)
       /\ \A i \in DOMAIN interviews \cap DOMAIN interviews', kind \in Kinds :
             ~SentFlag(interviews[i], kind) /\ SentFlag(interviews'[i], kind)
             => Delivered(i, kind)]_vars

\* a recipient has received the same reminder twice, the flag of which no
\* cycle had written when the second cycle fetched
C13_Witness ==
    /\ late = {}
    /\ \E key \in DOMAIN delivered : delivered[key] = 2 /\ key[3] = "24h"

\* t is before the window of a kind for interview i opens, by less than an hour
NotYetDue(i, kind, t) ==
    LET opens == IF kind = "24h" THEN 88200000 ELSE 12600000
    IN  /\ interviewDateTime(interviews[i]) - t > opens
        /\ interviewDateTime(interviews[i]) - t < opens + 3600000

\* C14: under a cadence shorter than the window, with fetches and writes
\* succeeding and a reachable recipient, an interview whose flag of a kind
\* is false at the last firing before the window of that kind opens gets
\* that reminder delivered and its flag set; and every delivery happens
\* while the reminder is due.
C14_NoMissedSend ==
    /\ \A kind \in Kinds :
          (NotYetDue(1, kind, now) /\ ~SentFlag(interviews[1], kind))
          ~> (SentFlag(interviews[1], kind) /\ Delivered(1, kind))
    /\ [](\A key \in DOMAIN delivered : Due(key[2], key[3], now))

\* the 3h reminder of an interview was delivered and its flag written while
\* the interview was between 2.5 h and 3.5 h away
C14_Witness ==
    /\ Due(1, "3h", now)
    /\ interviews[1].reminder_3h_sent
    /\ Delivered(1, "3h")
    /\ runs = 2

\* C15: no step turns a reminder flag of an interview that stays in the
\* table from true to false, whether the step belongs to an add, an owner's
\* update, a reminder cycle, a list broadcast or a change of the contacts.
C15_FlagsMonotonic ==
    [][\A i \in DOMAIN interviews \cap DOMAIN interviews', kind \in Kinds :
          SentFlag(interviews[i], kind) => SentFlag(interviews'[i], kind)]_vars

\* an interview whose 24h reminder was marked sent has been rescheduled by
\* its owner to the next day and still carries the flag
C15_Witness ==
    /\ 1 \in DOMAIN interviews
    /\ interviews[1].interview_date = 2
    /\ interviews[1].reminder_24h_sent
    /\ <<1, "24h">> \in marked
    /\ reply = [op |-> "update", userId |-> UserA, id |-> 1, success |-> TRUE]

\* an owner's command named an interview that is in the table and is theirs
Matched(r) ==
    r.id \in DOMAIN interviews /\ interviews[r.id].user_id = r.userId

\* C20: an update or delete that names an id that is not in the table, or
\* an interview of another owner, reports failure to the caller.
C20_NotFoundReported ==
    [][reply' # NoReply /\ reply = NoReply /\ ~Matched(reply') => ~reply'.success]_vars

(***************************************************************************)
(* The checks at the head of /trigger-reminders: deployments with and      *)
(* without a key and with and without SUPABASE_URL / SUPABASE_KEY, and     *)
(* requests whose key is missing or is not the configured one              *)
(***************************************************************************)
\* src/app.js with CRON_API_KEY set
Keyed == [Broadcast EXCEPT !.CRON_API_KEY = "secret"]

\* src/app.js with CRON_API_KEY set and SUPABASE_URL or SUPABASE_KEY unset
Unconfigured == [Keyed EXCEPT !.SUPABASE = FALSE]

\* src/unnamed/part_001 with no key and SUPABASE_URL or SUPABASE_KEY unset
LegacyUnconfigured == [Legacy EXCEPT !.CRON_API_KEY = "", !.SUPABASE = FALSE]

GateEnvs == {Broadcast, Keyed, Unconfigured, Legacy, LegacyUnconfigured}

\* req.headers['x-api-key'] || req.query.apiKey: a key that is not the
\* configured one, and no key
BadKeys == {"wrong", ""}

InitGate ==
    /\ now = NowGrid[1]
    /\ env \in GateEnvs
    /\ \E rows \in InitStores :
          /\ interviews = WithOwners(rows)
          /\ nextId = Cardinality(DOMAIN rows) + 1
    /\ InitCommon

NextGate ==
    \/ Respond(1)
    \/ /\ Quiet
       /\ \/ Tick
          \/ \E k \in BadKeys, ok \in BOOLEAN : TriggerReminders(1, k, ok)
          \/ \E r \in BOOLEAN : Send(1, r, r, r)
          \/ \E ok \in BOOLEAN : Mark(1, ok)
          \/ \E k \in BadKeys, ok, r \in BOOLEAN : TriggerList(1, k, ok, r, r, r)

SpecGate == InitGate /\ [][NextGate]_vars

\* a request that was answered before any read of the store, any push and
\* any flag write
Untouched(cy) ==
    /\ cy.pc = "done"
    /\ cy.fetchOk
    /\ cy.att = 0 /\ cy.okPushes = 0 /\ cy.marks = 0
    /\ cy.failures = <<>>

\* C16: with CRON_API_KEY configured, every request whose key is missing or
\* different is answered 401 with no store access, no push and no flag
\* write; with no key configured no request is answered 401.
C16_BadKeyUnauthorized ==
    \A c \in Cycles :
       cyc[c].pc # "idle" =>
          IF env.CRON_API_KEY # ""
          THEN Untouched(cyc[c]) /\ cyc[c].out.status = 401
          ELSE cyc[c].out.status # 401

\* C17: with SUPABASE_URL or SUPABASE_KEY unset, every request is answered
\* before any store access with an outcome that is neither the 401 of an
\* authorization failure nor the 200 of a cycle that had nothing to send.
C17_ConfigFailureRejected ==
    \A c \in Cycles :
       ~env.SUPABASE /\ cyc[c].pc # "idle" =>
          /\ Untouched(cyc[c])
          /\ cyc[c].out.what = "config"
          /\ cyc[c].out.status \notin {200, 401}

\* the identifiers the broadcast policy names: the followers and the groups
\* that are active, and the ones of the configuration
Subscribed ==
    {u \in DOMAIN line_users : line_users[u]}
    \cup {g \in DOMAIN line_groups : line_groups[g]}
    \cup (({env.PRESIDENT_LINE_USER_ID, env.GROUP_ID} \cup SeqToSet(env.GROUP_IDS))
          \ {NoId})

\* C18: under the broadcast policy the recipients resolved for a reminder
\* are exactly the active line_users rows, the active line_groups rows and
\* the configured identifiers, and no other identifier.
C18_BroadcastRecipientsExact ==
    \A c \in Cycles :
       env.policy = "broadcast" /\ cyc[c].pc = "send" =>
          LET rec == getReminderRecipientIds(line_users, line_groups, interviews,
                                             env, TRUE, TRUE, TRUE)
          IN  SeqToSet(rec.userIds) \cup SeqToSet(rec.groupIds) = Subscribed

(***************************************************************************)
(* src/unnamed/part_001 under every shape of its configuration: the        *)
(* president is the creator, another account, malformed or unset, and      *)
(* GROUP_ID is a group, a room or unset                                    *)
(***************************************************************************)
LegacyEnvs ==
    {[Legacy EXCEPT !.PRESIDENT_LINE_USER_ID = p, !.GROUP_ID = g] :
        p \in {UserA, PresidentId, TestUserId, NoId},
        g \in {EnvGroup, RoomId, NoId}}

InitLegacy ==
    /\ now = NowGrid[1]
    /\ env \in LegacyEnvs
    /\ \E rows \in InitStores :
          /\ interviews = WithOwners(rows)
          /\ nextId = Cardinality(DOMAIN rows) + 1
    /\ InitCommon

NextLegacy ==
    \/ Respond(1)
    \/ /\ Quiet
       /\ \/ Tick
          \/ TriggerReminders(1, env.CRON_API_KEY, TRUE)
          \/ Send(1, TRUE, TRUE, TRUE)
          \/ \E ok \in BOOLEAN : Mark(1, ok)

SpecLegacy == InitLegacy /\ [][NextLegacy]_vars

\* the creator if its identifier is a valid user identifier, GROUP_ID if it
\* is a valid group identifier, the president if valid and not the creator
CreatorGroupPresident(creator) ==
    {to \in {creator} : isValidLineUserId(to)}
    \cup {to \in {env.GROUP_ID} : isValidLineGroupId(to)}
    \cup {to \in {env.PRESIDENT_LINE_USER_ID} : isValidLineUserId(to) /\ to # creator}

\* the identifiers to which a push for the interview and kind resolved in
\* this step, and whether one of them got more than one
NewlyDelivered(id, kind) ==
    {key[1] : key \in {k \in DOMAIN delivered' :
                          /\ k[2] = id /\ k[3] = kind
                          /\ (k \notin DOMAIN delivered \/ delivered'[k] > delivered[k])}}

TwiceDelivered(id, kind) ==
    \E k \in DOMAIN delivered' :
       /\ k[2] = id /\ k[3] = kind
       /\ delivered'[k] > (IF k \in DOMAIN delivered THEN delivered[k] ELSE 0) + 1

\* C19: under the legacy policy a reminder's pushes go to the creator if
\* valid, to GROUP_ID if valid and to the president if valid and not the
\* creator, and to nobody else: as many pushes are attempted as there are
\* such identifiers, at most three, none gets two, and the pushes that
\* resolve reach only them (all of them when every push resolves).
C19_LegacyTargetsExact ==
    [][\A c \in Cycles :
          env.policy = "legacy" /\ cyc[c].pc = "send" /\ Moved(c) =>
             LET entry == Cur(cyc[c])
                 kind == cyc[c].kind
                 expected == CreatorGroupPresident(entry.user_id)
                 attempted == cyc'[c].att - cyc[c].att
                 resolved == cyc'[c].okPushes - cyc[c].okPushes
                 reached == NewlyDelivered(entry.id, kind)
             IN  /\ attempted = Cardinality(expected)
                 /\ attempted <= 3
                 /\ reached \subseteq expected
                 /\ Cardinality(reached) = resolved
                 /\ ~TwiceDelivered(entry.id, kind)
                 /\ resolved = attempted => reached = expected]_vars

\* the 24h reminder of interview 1 reached its creator, the configured group
\* and a president who is not the creator, once each
C19_Witness ==
    /\ env.policy = "legacy"
    /\ env.PRESIDENT_LINE_USER_ID = PresidentId
    /\ \A to \in {UserA, EnvGroup, PresidentId} :
          <<to, 1, "24h">> \in DOMAIN delivered /\ delivered[<<to, 1, "24h">>] = 1
    /\ \E c \in Cycles : cyc[c].att = 3

\* the configured identifiers that are malformed for their role; they are in
\* the resolved recipient set whatever the selects return
MalformedConfigured ==
    {to \in {env.PRESIDENT_LINE_USER_ID} \ {NoId} : ~isValidLineUserId(to)}
    \cup {to \in ({env.GROUP_ID} \cup SeqToSet(env.GROUP_IDS)) \ {NoId} :
             ~isValidLineGroupId(to)}

\* request c runs one send operation in this step: the fan-out of a reminder,
\* or the fan-out of the interview list
SendsReminder(c) == cyc[c].pc = "send" /\ Moved(c)
SendsList(c) ==
    /\ cyc[c].pc \in {"idle", "done"}
    /\ cyc'[c].pc = "done" /\ cyc'[c].out.what = "list" /\ cyc'[c].out.status = 200

\* C21: under the broadcast policy, in both trigger modes, the result of a
\* send operation holds for every malformed identifier of the recipient set
\* a validation error ('Invalid LINE ... ID format') and no delivery error.
C21_MalformedRecorded ==
    [][\A c \in Cycles :
          env.policy = "broadcast" /\ (SendsReminder(c) \/ SendsList(c)) =>
             \A to \in MalformedConfigured :
                /\ InvalidErr(to) \in SeqToSet(cyc'[c].failures)
                /\ DeliveryErr(to) \notin SeqToSet(cyc'[c].failures)]_vars

\* C22: the 24h list and the 3h list of one evaluation pass share no
\* interview, both as getInterviewsNeedingReminders computes them at any
\* instant and as a request holds them.
C22_ListsDisjoint ==
    /\ SeqToSet(interviews24h(interviews, now))
          \cap SeqToSet(interviews3h(interviews, now)) = {}
    /\ \A c \in Cycles : IdsOf(cyc[c].list24) \cap IdsOf(cyc[c].list3) = {}

\* one pass has put one interview into the 24h list and the other into the
\* 3h list
C22_Witness ==
    /\ cyc[1].pc = "send"
    /\ cyc[1].list24 # <<>> /\ cyc[1].list3 # <<>>
    /\ interviews24h(interviews, now) # <<>>
    /\ interviews3h(interviews, now) # <<>>

(***************************************************************************)
(* SpecBacklog: the clock passes before, through, between and after the    *)
(* two windows of an interview at noon of day 1, whose flags have any      *)
(* value; a request can come at each instant, pushes and flag writes can   *)
(* fail, and the clock moves between requests                              *)
(***************************************************************************)
\* hours until the interview, in hundredths, in the order the clock passes them
BacklogDiffs == <<2500, 2451, 2400, 2349, 1200, 351, 300, 249, 100, -100>>

BacklogAt(k) == DayMs + Noon - BacklogDiffs[k] * (Hour \div 100)

InitBacklog ==
    /\ now = BacklogAt(1)
    /\ env = Broadcast
    /\ \E a, b \in BOOLEAN :
          interviews = WithOwners([k \in {1} |->
                          [NewRow(NoId, 1, Noon) EXCEPT !.reminder_24h_sent = a,
                                                        !.reminder_3h_sent = b]])
    /\ nextId = 2
    /\ InitCommon

TickBacklog ==
    /\ cyc[1].pc = "idle"
    /\ \E k \in 1..(Len(BacklogDiffs) - 1) :
          now = BacklogAt(k) /\ now' = BacklogAt(k + 1)
    /\ UNCHANGED <<env, interviews, nextId, line_users, line_groups, cyc, runs,
                   adder, delivered, malformed, marked, late, reply, hook>>

NextBacklog ==
    \/ Respond(1)
    \/ /\ Quiet
       /\ \/ TickBacklog
          \/ TriggerReminders(1, "", TRUE)
          \/ Send(1, TRUE, TRUE, TRUE)
          \/ \E ok \in BOOLEAN : Mark(1, ok)

SpecBacklog == InitBacklog /\ [][NextBacklog]_vars

\* the start of interview i is more than 24.5 h away, strictly between 3.5 h
\* and 23.5 h away, less than 2.5 h away or in the past
OutsideWindows(i, t) ==
    LET d == 2 * diffMs(interviews[i], t)
    IN  d > 49 * Hour \/ (d > 7 * Hour /\ d < 47 * Hour) \/ d < 5 * Hour

\* C23: a pass classifies an interview that is outside both windows into
\* neither list whatever its flags, and a push of a reminder resolves only
\* at an instant inside the window of its kind: a window that has passed
\* with the flag still false is not served by a later cycle.
C23_NoBacklog ==
    [][/\ \A c \in Cycles :
             Classified(c) =>
                \A i \in DOMAIN interviews :
                   OutsideWindows(i, now) =>
                      i \notin IdsOf(cyc'[c].list24) \cup IdsOf(cyc'[c].list3)
       /\ \A key \in DOMAIN delivered' :
             (key \notin DOMAIN delivered \/ delivered'[key] > delivered[key])
                => Due(key[2], key[3], now)]_vars

\* a request made 12 h before the interview, after the 24h window has
\* passed with the flag still false, has ended with nothing pushed
C23_Witness ==
    /\ now = DayMs + Noon - 12 * Hour
    /\ ~interviews[1].reminder_24h_sent
    /\ ~Delivered(1, "24h")
    /\ cyc[1].pc = "done" /\ cyc[1].out.what = "reminders"
    /\ cyc[1].att = 0

(***************************************************************************)
(* SpecSnap: followers and groups come and go while a request is being      *)
(* handled, in the broadcast deployment; two interviews at noon of day 1,   *)
(* every select and flag write succeeds and every push resolves             *)
(***************************************************************************)
InitSnap ==
    /\ now = NowGrid[1]
    /\ env = Broadcast
    /\ interviews = WithOwners([k \in {1, 2} |-> NewRow(NoId, 1, Noon)])
    /\ nextId = 3
    /\ InitCommon

NextSnap ==
    \/ Respond(1)
    \/ /\ Quiet
       /\ \/ Tick
          \/ TriggerReminders(1, "", TRUE)
          \/ /\ cyc[1].pc = "send"
             /\ SendWith(1, SeqToSet(TargetsOf(getReminderRecipientIds(line_users,
                            line_groups, interviews, env, TRUE, TRUE, TRUE),
                            Cur(cyc[1]))), TRUE, TRUE, TRUE)
          \/ Mark(1, TRUE)
          \/ recordUser(UserB)
          \/ setUserInactive(UserB)
          \/ recordGroup(GroupA)
          \/ setGroupInactive(GroupA)

SpecSnap == InitSnap /\ [][NextSnap]_vars

\* the identifiers a push of the reminder (i, kind) has reached
ReachedBy(i, kind) ==
    {key[1] : key \in {k \in DOMAIN delivered : k[2] = i /\ k[3] = kind}}

\* C24: the reminders one cycle sends all go to one set of recipients, the
\* one resolved when the cycle started, whoever opts in or out meanwhile:
\* while only one request has been made, any two reminders delivered have
\* reached the same identifiers.
C24_OneSnapshotPerCycle ==
    runs = 1 =>
       \A i, j \in DOMAIN interviews, k1, k2 \in Kinds :
          Delivered(i, k1) /\ Delivered(j, k2) => ReachedBy(i, k1) = ReachedBy(j, k2)

(***************************************************************************)
(* SpecLoop: one request whose pass fills both lists: at 22:00 of day 1,    *)
(* two interviews at 22:00 of day 2 and one at 01:00 of day 2; pushes and   *)
(* flag writes can fail, under both policies                                *)
(***************************************************************************)
LoopRows ==
    [k \in {1, 2, 3} |->
        IF k = 1 THEN NewRow(UserA, 2, 22 * Hour)
        ELSE IF k = 2 THEN NewRow(TestUserId, 2, 22 * Hour)
        ELSE NewRow(UserB, 2, Hour)]

InitLoop ==
    /\ now = DayMs + 22 * Hour
    /\ env \in Envs
    /\ \E b \in BOOLEAN :
          interviews = [LoopRows EXCEPT ![3].reminder_24h_sent = b]
    /\ nextId = 4
    /\ InitCommon

\* the outcomes of a fan-out that are explored here: every push resolves,
\* none does, only the first fails
OkSetsLoop(targets) ==
    {SeqToSet(targets), {}}
    \cup (IF targets = <<>> THEN {} ELSE {SeqToSet(targets) \ {targets[1]}})

NextLoop ==
    \/ Respond(1)
    \/ /\ Quiet
       /\ \/ TriggerReminders(1, env.CRON_API_KEY, TRUE)
          \/ /\ cyc[1].pc = "send"
             /\ \E okSet \in OkSetsLoop(TargetsOf(getReminderRecipientIds(line_users,
                       line_groups, interviews, env, TRUE, TRUE, TRUE), Cur(cyc[1]))) :
                   SendWith(1, okSet, TRUE, TRUE, TRUE)
          \/ \E ok \in BOOLEAN : Mark(1, ok)

SpecLoop == InitLoop /\ [][NextLoop]_vars

\* the place of a request in its two loops: the 24h list comes first
Place(cy) == (IF cy.kind = "24h" THEN 0 ELSE Len(cy.list24)) + cy.idx

NoRepeat(list) == Cardinality(IdsOf(list)) = Len(list)

\* C25: within one cycle every (interview, kind) is gone through once: its
\* pushes are attempted in one step, its flag is written at most once, in
\* the step right after them, and the cycle then moves on to a later entry
\* or ends, so that no push for it follows its flag write.
C25_MarkOnceAfterPushes ==
    [][\A c \in Cycles :
          LET cy == cyc[c]
              nx == cyc'[c]
              onward == nx.pc = "done" \/ (nx.pc = "send" /\ Place(nx) > Place(cy))
          IN  /\ Moved(c) /\ cy.pc = "send" =>
                    /\ NoRepeat(cy.list24) /\ NoRepeat(cy.list3)
                    /\ nx.marks = cy.marks /\ interviews' = interviews
                    /\ \/ nx.pc = "mark" /\ Place(nx) = Place(cy)
                       \/ onward
              /\ Moved(c) /\ cy.pc = "mark" =>
                    /\ nx.marks <= cy.marks + 1
                    /\ nx.att = cy.att /\ delivered' = delivered
                    /\ \A i \in DOMAIN interviews, kind \in Kinds :
                          SentFlag(interviews'[i], kind) # SentFlag(interviews[i], kind)
                             => i = Cur(cy).id /\ kind = cy.kind
                    /\ onward]_vars

\* a cycle has pushed and marked the 24h reminders of two interviews and the
\* 3h reminder of a third
C25_Witness ==
    /\ cyc[1].pc = "done" /\ cyc[1].marks = 3
    /\ interviews[1].reminder_24h_sent
    /\ interviews[3].reminder_3h_sent
    /\ Delivered(1, "24h") /\ Delivered(3, "3h")

(***************************************************************************)
(* SpecFan: the fan-out of a reminder in broadcast deployments, one of      *)
(* which names the same identifiers several times: the president is the     *)
(* owner of the interview, GROUP_ID is a tracked group and is listed again  *)
(* in GROUP_IDS; every select succeeds, pushes and flag writes can fail     *)
(***************************************************************************)
Overlapping ==
    [Broadcast EXCEPT !.PRESIDENT_LINE_USER_ID = UserA, !.GROUP_ID = GroupA,
                      !.GROUP_IDS = <<GroupA, EnvGroup, RoomId>>]

InitFan ==
    /\ now = NowGrid[1]
    /\ env \in {Broadcast, Overlapping}
    /\ \E rows \in InitStores :
          /\ interviews = WithOwners(rows)
          /\ nextId = Cardinality(DOMAIN rows) + 1
    /\ InitCommon

NextFan ==
    \/ Respond(1)
    \/ /\ Quiet
       /\ \/ Tick
          \/ TriggerReminders(1, "", TRUE)
          \/ Send(1, TRUE, TRUE, TRUE)
          \/ \E ok \in BOOLEAN : Mark(1, ok)

SpecFan == InitFan /\ [][NextFan]_vars

\* the distinct well-formed identifiers among the recipients: the active
\* followers, or the owners of interviews when there is none, the president,
\* the active groups and the configured groups
DistinctRecipients ==
    LET followers == {u \in DOMAIN line_users : line_users[u]}
        owners == {interviews[i].user_id : i \in DOMAIN interviews} \ {NoId}
        users == (IF followers = {} THEN owners ELSE followers)
                 \cup ({env.PRESIDENT_LINE_USER_ID} \ {NoId})
        groups == {g \in DOMAIN line_groups : line_groups[g]}
                  \cup ({env.GROUP_ID} \ {NoId}) \cup SeqToSet(env.GROUP_IDS)
    IN  {u \in users : isValidLineUserId(u)} \cup {g \in groups : isValidLineGroupId(g)}

\* C26: the fan-out of an (interview, kind) attempts one push for each
\* distinct recipient identifier, no recipient gets two, and whatever
\* failed is not tried again in this cycle: the cycle goes on to the flag
\* write of this entry or to a later entry, or ends.
C26_OnePushPerRecipient ==
    [][\A c \in Cycles :
          env.policy = "broadcast" /\ cyc[c].pc = "send" /\ Moved(c) =>
             LET cy == cyc[c]
                 nx == cyc'[c]
             IN  /\ nx.att - cy.att = Cardinality(DistinctRecipients)
                 /\ ~TwiceDelivered(Cur(cy).id, cy.kind)
                 /\ NewlyDelivered(Cur(cy).id, cy.kind) \subseteq DistinctRecipients
                 /\ \/ nx.pc = "mark" /\ Place(nx) = Place(cy)
                    \/ nx.pc = "done"
                    \/ nx.pc = "send" /\ Place(nx) > Place(cy)]_vars

\* in the deployment that names identifiers several times, the pushes of the
\* first cycle all failed and the second cycle, finding the flag still
\* false, has delivered the 24h reminder of interview 1 once to each of the
\* three distinct recipients
C26_Witness ==
    /\ env = Overlapping
    /\ runs = 2 /\ now = NowGrid[2]
    /\ cyc[1].pc = "mark" /\ cyc[1].att = 3 /\ cyc[1].okPushes = 3
    /\ Cur(cyc[1]).id = 1
    /\ \A to \in {UserA, GroupA, EnvGroup} :
          <<to, 1, "24h">> \in DOMAIN delivered /\ delivered[<<to, 1, "24h">>] = 1

\* the well-formed identifiers the policy of the deployment resolves for an
\* entry of a list
WellFormedRecipients(entry) ==
    IF env.policy = "broadcast" THEN DistinctRecipients
    ELSE CreatorGroupPresident(entry.user_id)

DeliveryFailures(errs) ==
    Cardinality({k \in 1..Len(errs) : errs[k].type = "delivery"})

\* C27: one call of sendReminderMessage attempts one push for every
\* well-formed recipient it resolved, under both policies, whichever of the
\* pushes fail and whichever identifiers are malformed: the pushes that
\* resolve and those recorded as delivery failures add up to the
\* well-formed recipients.
C27_FanOutContinues ==
    [][\A c \in Cycles :
          cyc[c].pc = "send" /\ Moved(c) =>
             LET cy == cyc[c]
                 nx == cyc'[c]
                 expected == WellFormedRecipients(Cur(cy))
                 reached == NewlyDelivered(Cur(cy).id, cy.kind)
             IN  /\ nx.att - cy.att = Cardinality(expected)
                 /\ reached \subseteq expected
                 /\ Cardinality(reached) = nx.okPushes - cy.okPushes
                 /\ DeliveryFailures(nx.failures) - DeliveryFailures(cy.failures)
                       = Cardinality(expected \ reached)]_vars

\* in the broadcast deployment the first push of a fan-out failed and a
\* malformed owner identifier was skipped, and the three recipients after
\* them were still reached
C27_Witness ==
    /\ env.policy = "broadcast"
    /\ cyc[1].pc = "mark" /\ Place(cyc[1]) = 1
    /\ cyc[1].att = 4 /\ cyc[1].okPushes = 3
    /\ DeliveryErr(UserA) \in SeqToSet(cyc[1].failures)
    /\ InvalidErr(TestUserId) \in SeqToSet(cyc[1].failures)
    /\ \A to \in {UserB, PresidentId, GroupA} : <<to, 1, "24h">> \in DOMAIN delivered
    /\ <<UserA, 1, "24h">> \notin DOMAIN delivered

\* C28: a cycle goes through every entry of its 24h list and then of its 3h
\* list: it starts at the first entry, goes from an entry to the next one
\* whether the fan-out reached somebody or nobody, attempts the pushes of
\* each entry it stands on, and ends with the 200 report only after the
\* last entry of both lists.
C28_EveryInterviewAttempted ==
    [][\A c \in Cycles :
          LET cy == cyc[c]
              nx == cyc'[c]
              inLoops == cy.pc \in {"send", "mark"}
          IN  Moved(c) =>
                /\ Classified(c) /\ nx.pc = "send" => Place(nx) = 1
                /\ inLoops /\ nx.pc # "done" =>
                      /\ nx.list24 = cy.list24 /\ nx.list3 = cy.list3
                      /\ Place(nx) = Place(cy) + (IF nx.pc = "send" THEN 1 ELSE 0)
                /\ inLoops /\ nx.pc = "done" =>
                      /\ Place(cy) = Len(cy.list24) + Len(cy.list3)
                      /\ nx.out.what = "reminders" /\ nx.out.status = 200
                /\ cy.pc = "send" =>
                      nx.att - cy.att = Cardinality(WellFormedRecipients(Cur(cy)))]_vars

\* the fan-out of the first 24h entry reached nobody, and the cycle still
\* delivered and marked the second 24h entry and the 3h entry
C28_Witness ==
    /\ cyc[1].pc = "done" /\ cyc[1].out.status = 200
    /\ InterviewErr("24h", 1) \in SeqToSet(cyc[1].out.errors)
    /\ ~Delivered(1, "24h")
    /\ Delivered(2, "24h") /\ interviews[2].reminder_24h_sent
    /\ Delivered(3, "3h") /\ interviews[3].reminder_3h_sent
    /\ cyc[1].marks = 2

\* the row with the flag of one kind set
WithFlag(row, kind) ==
    IF kind = "24h" THEN [row EXCEPT !.reminder_24h_sent = TRUE]
    ELSE [row EXCEPT !.reminder_3h_sent = TRUE]

\* C29: the flag write of a cycle for an (interview, kind) leaves every
\* other row as it was and changes of that row nothing but the flag of that
\* kind; and an interview inside the 3h window whose 3h flag is false is in
\* the 3h list whatever its 24h flag.
C29_MarkFrame ==
    [][/\ \A c \in Cycles :
             cyc[c].pc = "mark" /\ Moved(c) =>
                LET id == Cur(cyc[c]).id
                IN  /\ DOMAIN interviews' = DOMAIN interviews
                    /\ \A i \in DOMAIN interviews \ {id} : interviews'[i] = interviews[i]
                    /\ interviews'[id] \in {interviews[id],
                                            WithFlag(interviews[id], cyc[c].kind)}
       /\ \A i \in DOMAIN interviews :
             Due(i, "3h", now) /\ ~interviews[i].reminder_3h_sent
                => i \in SeqToSet(interviews3h(interviews, now))]_vars

\* the 3h reminder of interview 1 was delivered and marked after its 24h
\* reminder was marked, and that of interview 2 although its 24h reminder
\* was never delivered and its 24h flag is still false
C29_Witness ==
    /\ 2 \in DOMAIN interviews
    /\ <<1, "24h">> \in marked /\ <<1, "3h">> \in marked
    /\ interviews[1].reminder_24h_sent /\ interviews[1].reminder_3h_sent
    /\ Delivered(1, "3h")
    /\ ~interviews[2].reminder_24h_sent /\ ~Delivered(2, "24h")
    /\ interviews[2].reminder_3h_sent /\ Delivered(2, "3h")

\* C30: once addInterview has completed with its writes accepted, the new
\* interview has reminder_24h_sent true if it was created less than 23.5 h
\* before its start and reminder_3h_sent true if it was created less than
\* 2.5 h before its start.
C30_NoStaleUnsentFlag ==
    adder.pc = "done" /\ adder.success /\ ~adder.failed
    => LET row == interviews[adder.id]
           away == 2 * (interviewDateTime(row) - now)
       IN  /\ away < 47 * Hour => row.reminder_24h_sent
           /\ away < 5 * Hour => row.reminder_3h_sent

(***************************************************************************)
(* SpecLate: an interview at noon of day 1 is created shortly before its   *)
(* start; the scheduler then fires every ten minutes, the first time ten   *)
(* minutes after the creation; every write succeeds and every push         *)
(* resolves                                                                *)
(***************************************************************************)
\* minutes between the creation and the start of the interview
LateAways == {174, 156, 120, 60, 30}

LateCreations == {DayMs + Noon - m * Minute : m \in LateAways}

Cadence == 10 * Minute

InitLate ==
    /\ now \in LateCreations
    /\ env = Broadcast
    /\ interviews = <<>>
    /\ nextId = 1
    /\ InitCommon

\* the clock reaches the next firing once the creation has returned and the
\* request of the last firing was answered
TickLate ==
    /\ adder.pc = "done" /\ cyc[1].pc = "idle"
    /\ \E t0 \in LateCreations : now = t0 + runs * Cadence
    /\ now' = now + Cadence
    /\ UNCHANGED <<env, interviews, nextId, line_users, line_groups, cyc, runs,
                   adder, delivered, malformed, marked, late, reply, hook>>

NextLate ==
    \/ Respond(1)
    \/ AddInsert(UserA, 1, Noon, TRUE)
    \/ AddGuard
    \/ AddMark24(TRUE)
    \/ AddMark3(TRUE)
    \/ TickLate
    \/ /\ \E t0 \in LateCreations : now = t0 + (runs + 1) * Cadence
       /\ TriggerReminders(1, "", TRUE)
    \/ /\ cyc[1].pc = "send"
       /\ SendWith(1, SeqToSet(TargetsOf(getReminderRecipientIds(line_users,
                      line_groups, interviews, env, TRUE, TRUE, TRUE),
                      Cur(cyc[1]))), TRUE, TRUE, TRUE)
    \/ Mark(1, TRUE)

SpecLate == InitLate /\ [][NextLate]_vars /\ WF_vars(NextLate)

\* addInterview has returned, no request has come since, and the interview
\* starts at least 1 h and less than 3 h from now
CreatedLate ==
    /\ adder.pc = "done" /\ adder.success /\ runs = 0
    /\ now \in LateCreations
    /\ adder.start - now >= Hour /\ adder.start - now < 3 * Hour

\* C31: an interview created at least 1 h and less than 3 h before its
\* start has reminder_3h_sent false when addInterview returns, and under
\* the ten-minute cadence a later cycle puts it into its 3h list and its 3h
\* reminder is delivered.
C31_LateCreatedGets3h ==
    /\ [](CreatedLate => ~interviews[adder.id].reminder_3h_sent)
    /\ (CreatedLate ~> (1 \in IdsOf(cyc[1].list3) /\ cyc[1].kind = "3h"))
    /\ (CreatedLate ~> Delivered(1, "3h"))

\* a step in which updateInterview or deleteInterview answers a command
Commanded == reply = NoReply /\ reply' # NoReply

\* row i is in the table before and after the step and differs in nothing
\* but, possibly, reminder flags that went from false to true
OnlyFlagsSet(i) ==
    /\ i \in DOMAIN interviews'
    /\ interviews'[i] \in {interviews[i], WithFlag(interviews[i], "24h"),
                           WithFlag(interviews[i], "3h"),
                           WithFlag(WithFlag(interviews[i], "24h"), "3h")}

\* C32: an update or delete sent by an account leaves every interview of
\* another account in the table with all its fields and both flags as they
\* were; and a step that is not a command of the owner changes of a stored
\* row nothing but a reminder flag, which is what markReminderSent writes.
C32_OwnerRestriction ==
    [][\A i \in DOMAIN interviews :
          /\ Commanded /\ interviews[i].user_id # reply'.userId
                => i \in DOMAIN interviews' /\ interviews'[i] = interviews[i]
          /\ ~(Commanded /\ interviews[i].user_id = reply'.userId)
                => OnlyFlagsSet(i)]_vars

\* the store has accepted an update of interview 1 sent by UserB, who does
\* not own it: the row is still UserA's, at noon of day 1, with the 24h flag
\* that a cycle wrote and the 3h flag false
C32_Witness ==
    /\ reply = [op |-> "update", userId |-> UserB, id |-> 1, success |-> TRUE]
    /\ 1 \in DOMAIN interviews
    /\ interviews[1] = [NewRow(UserA, 1, Noon) EXCEPT !.reminder_24h_sent = TRUE]
    /\ <<1, "24h">> \in marked

(***************************************************************************)
(* SpecOwn: the commands of two accounts on the interviews of the store,   *)
(* between the reminder cycles of the broadcast deployment; the contacts   *)
(* do not change and no list is broadcast                                  *)
(***************************************************************************)
NextOwn ==
    \/ Respond(1)
    \/ replyMessage
    \/ /\ Quiet
       /\ \/ Tick
          \/ TriggerReminders(1, "", TRUE)
          \/ /\ cyc[1].pc = "send"
             /\ SendWith(1, SeqToSet(TargetsOf(getReminderRecipientIds(line_users,
                            line_groups, interviews, env, TRUE, TRUE, TRUE),
                            Cur(cyc[1]))), TRUE, TRUE, TRUE)
          \/ Mark(1, TRUE)
          \/ AddInsert(UserB, 1, 19 * (Hour \div 2), TRUE)
          \/ AddGuard
          \/ AddMark24(TRUE)
          \/ AddMark3(TRUE)
          \/ \E u \in Owners, i \in CommandIds, up \in Updates, ok \in BOOLEAN :
                updateInterview(u, i, up[1], up[2], ok)
          \/ \E u \in Owners, i \in CommandIds, ok \in BOOLEAN :
                deleteInterview(u, i, ok)

SpecOwn == InitStore /\ [][NextOwn]_vars

\* the users whose opt-out is recorded: their line_users row has active =
\* false; the configured president is left out
OptedOut ==
    {u \in DOMAIN line_users : ~line_users[u]} \ {env.PRESIDENT_LINE_USER_ID}

\* the identifiers to which a push resolved in this step
PushedTo ==
    {key[1] : key \in {k \in DOMAIN delivered' :
                          k \notin DOMAIN delivered \/ delivered'[k] > delivered[k]}}

\* C33: under the broadcast policy no step of a reminder cycle pushes a
\* reminder, and no list broadcast pushes the list, to a user whose
\* line_users row is inactive at that step, unless the user is the
\* configured president.
C33_NoPushAfterOptOut ==
    [][env.policy = "broadcast" =>
          /\ PushedTo \cap OptedOut = {}
          /\ \A c \in Cycles :
                SendsList(c) =>
                   LET rec == getReminderRecipientIds(line_users, line_groups,
                                                      interviews, env, TRUE, TRUE, TRUE)
                   IN  SeqToSet(FanOutList(rec.userIds, rec.groupIds, {}).targets)
                          \cap OptedOut = {}]_vars

\* C34: the step in which the store answers an owner's update leaves both
\* reminder flags of every interview as they were, whatever the new date or
\* time and however close the new start is; and a cycle lists for a kind
\* only interviews whose flag of that kind is false in the table it reads,
\* and pushes only what it listed, so no cycle that reads the table after
\* the rescheduling sends a reminder of a kind whose flag was set.
C34_RescheduleKeepsFlags ==
    [][/\ Commanded /\ reply'.op = "update" =>
             /\ DOMAIN interviews' = DOMAIN interviews
             /\ \A i \in DOMAIN interviews, kind \in Kinds :
                   SentFlag(interviews'[i], kind) = SentFlag(interviews[i], kind)
       /\ \A c \in Cycles :
             Classified(c) =>
                /\ \A i \in IdsOf(cyc'[c].list24) : ~interviews[i].reminder_24h_sent
                /\ \A i \in IdsOf(cyc'[c].list3) : ~interviews[i].reminder_3h_sent
       /\ \A i \in DOMAIN interviews, kind \in Kinds :
             NewlyDelivered(i, kind) # {} =>
                \E c \in Cycles : /\ cyc[c].pc = "send" /\ cyc[c].kind = kind
                                  /\ Cur(cyc[c]).id = i]_vars

\* at 09:00 of day 1 the owner has moved interview 1 from noon to 09:30 of
\* that day, half an hour away: it still has the 24h flag a cycle wrote and a
\* false 3h flag, and its only reminder is the 24h one sent a day before
C34_Witness ==
    /\ reply = [op |-> "update", userId |-> UserA, id |-> 1, success |-> TRUE]
    /\ now = DayMs + 9 * Hour
    /\ 1 \in DOMAIN interviews
    /\ interviews[1] = [NewRow(UserA, 1, 19 * (Hour \div 2))
                          EXCEPT !.reminder_24h_sent = TRUE]
    /\ Delivered(1, "24h") /\ ~Delivered(1, "3h")

(***************************************************************************)
(* SpecRace: a reminder cycle runs while addInterview of an interview at   *)
(* noon of day 1 is between its insert and the flag writes of its guard;   *)
(* the flag writes of the guard can fail                                   *)
(***************************************************************************)
\* hours until the interview when it is created, in hundredths: the bounds
\* of the guard, and instants inside and outside the two windows
RaceDiffs ==
    GuardDiffs \cup {n * (Hour \div 100) : n \in {2400, 2350, 350, 250}}

InitRace ==
    /\ \E d \in RaceDiffs : now = DayMs + Noon - d
    /\ env = Broadcast
    /\ interviews = <<>>
    /\ nextId = 1
    /\ InitCommon

NextRace ==
    \/ Respond(1)
    \/ AddInsert(UserA, 1, Noon, TRUE)
    \/ AddGuard
    \/ \E ok \in BOOLEAN : AddMark24(ok)
    \/ \E ok \in BOOLEAN : AddMark3(ok)
    \/ TriggerReminders(1, "", TRUE)
    \/ /\ cyc[1].pc = "send"
       /\ SendWith(1, SeqToSet(TargetsOf(getReminderRecipientIds(line_users,
                      line_groups, interviews, env, TRUE, TRUE, TRUE),
                      Cur(cyc[1]))), TRUE, TRUE, TRUE)
    \/ Mark(1, TRUE)

SpecRace == InitRace /\ [][NextRace]_vars

\* the guard of addInterview writes the flag of a kind for a start that far
Suppressed(kind, diff) == IF kind = "24h" THEN guard24h(diff) ELSE guard3h(diff)

\* C35: whenever a cycle reads the table, also between the insert of
\* addInterview and the flag writes of its guard, no interview less than 3 h
\* away is in its 24h list and none less than 1 h away is in its 3h list,
\* and no fan-out of the cycle is for a reminder that the guard suppresses.
C35_GuardRaceHarmless ==
    [][\A c \in Cycles :
          /\ Classified(c) =>
                /\ \A i \in IdsOf(cyc'[c].list24) :
                      ~Suppressed("24h", diffMs(interviews[i], now))
                /\ \A i \in IdsOf(cyc'[c].list3) :
                      ~Suppressed("3h", diffMs(interviews[i], now))
          /\ SendsReminder(c) =>
                ~Suppressed(cyc[c].kind, diffMs(interviews[Cur(cyc[c]).id], now))]_vars

\* a cycle that read the table after the insert of an interview 2.99 h away
\* and before the guard wrote its 24h flag has pushed the 3h reminder, which
\* the guard does not suppress, and no 24h reminder
C35_Witness ==
    /\ adder.pc = "mark24" /\ adder.need24 /\ ~adder.need3
    /\ ~interviews[adder.id].reminder_24h_sent
    /\ Delivered(adder.id, "3h") /\ ~Delivered(adder.id, "24h")

\* request c is answered in this step in the interview-list mode
ListAnswered(c) ==
    /\ cyc[c].pc \in {"idle", "done"}
    /\ cyc'[c].pc = "done" /\ cyc'[c].out.what = "list"

\* C36: a request in the interview-list mode, whatever its pushes did and
\* whether or not it was served, leaves every row of the interviews table,
\* the flags that were written and the reminders that were delivered as they
\* were, so that the 24h list and the 3h list a reminder cycle computes
\* after it are the ones it would have computed before it.
C36_ListModeFrame ==
    [][\A c \in Cycles :
          ListAnswered(c) =>
             /\ interviews' = interviews
             /\ marked' = marked /\ delivered' = delivered
             /\ interviews24h(interviews', now') = interviews24h(interviews, now)
             /\ interviews3h(interviews', now') = interviews3h(interviews, now)]_vars

\* a list broadcast whose pushes resolved has been answered while an
\* interview is inside its 24h window with the flag still false and no
\* reminder delivered: the next cycle will list it
C36_Witness ==
    /\ cyc[1].pc = "done" /\ cyc[1].out.what = "list" /\ cyc[1].out.status = 200
    /\ cyc[1].okPushes > 0
    /\ interviews24h(interviews, now) # <<>>
    /\ \A i \in SeqToSet(interviews24h(interviews, now)) : ~Delivered(i, "24h")

(***************************************************************************)
(* SpecHook: app.post('/callback') handles follow, unfollow, join and      *)
(* leave events. The handler calls ContactTracker without await, so the    *)
(* request is answered while the store writes are on their way; each write *)
(* is a request of its own to the store, and the store applies the writes  *)
(* in the order in which they reach it. Every write is accepted.           *)
(***************************************************************************)
\* the events of the webhook: their type and the userId or groupId of their
\* source
HookEvents ==
    {[type |-> "follow", id |-> UserB], [type |-> "unfollow", id |-> UserB],
     [type |-> "follow", id |-> UserA],
     [type |-> "join", id |-> GroupA], [type |-> "leave", id |-> GroupA]}

\* req.body.events: one event, or two
Batches == {<<e>> : e \in HookEvents} \cup {<<e, f>> : e, f \in HookEvents}

\* the last event of each identifier once the events were handled in order
LastAfter(last, events) ==
    LET ids == {events[k].id : k \in 1..Len(events)}
        lastOf(id) == CHOOSE k \in 1..Len(events) :
                         /\ events[k].id = id
                         /\ \A j \in 1..Len(events) : events[j].id = id => j <= k
    IN  [id \in DOMAIN last \cup ids |->
            IF id \in ids THEN events[lastOf(id)].type ELSE last[id]]

\* await Promise.all(events.map(async (event) => ...)); res.status(200).end():
\* the callbacks run in the order of the events up to their first await, and
\* ContactTracker.recordUser / setUserInactive / recordGroup /
\* setGroupInactive is called and not awaited
Callback(events) ==
    /\ runs < MaxRuns
    /\ runs' = runs + 1
    /\ hook' = [pending |-> hook.pending \o events,
                last    |-> LastAfter(hook.last, events)]
    /\ UNCHANGED <<now, env, interviews, nextId, line_users, line_groups, cyc,
                   adder, delivered, malformed, marked, late, reply>>

\* the k-th write on its way reaches the store: upsert { active: true } of
\* recordUser and recordGroup, update { active: false } where the identifier
\* matches of setUserInactive and setGroupInactive
StoreApply(k) ==
    /\ k \in 1..Len(hook.pending)
    /\ LET e == hook.pending[k]
           upsert(table) == [x \in DOMAIN table \cup {e.id} |->
                               IF x = e.id THEN TRUE ELSE table[x]]
           update(table) == [x \in DOMAIN table |->
                               IF x = e.id THEN FALSE ELSE table[x]]
       IN  /\ line_users' = IF e.type = "follow" THEN upsert(line_users)
                            ELSE IF e.type = "unfollow" THEN update(line_users)
                            ELSE line_users
           /\ line_groups' = IF e.type = "join" THEN upsert(line_groups)
                             ELSE IF e.type = "leave" THEN update(line_groups)
                             ELSE line_groups
    /\ hook' = [hook EXCEPT !.pending =
                  SubSeq(hook.pending, 1, k - 1)
                  \o SubSeq(hook.pending, k + 1, Len(hook.pending))]
    /\ UNCHANGED <<now, env, interviews, nextId, cyc, runs, adder, delivered,
                   malformed, marked, late, reply>>

InitHook ==
    /\ now = NowGrid[1]
    /\ env = Broadcast
    /\ interviews = <<>>
    /\ nextId = 1
    /\ InitCommon

NextHook ==
    \/ \E events \in Batches : Callback(events)
    \/ \E k \in 1..Len(hook.pending) : StoreApply(k)

SpecHook == InitHook /\ [][NextHook]_vars

\* the row of an identifier is there and active
ActiveRow(id) ==
    \/ id \in DOMAIN line_users /\ line_users[id]
    \/ id \in DOMAIN line_groups /\ line_groups[id]

\* C37: once the writes of the handled events have reached the store, a
\* user or group whose last event was a follow or join has an active row,
\* and one whose last event was an unfollow or leave has none: a follow and
\* a later unfollow of one user, in one batch or in consecutive requests,
\* leave the user inactive.
C37_ContactOrder ==
    hook.pending = <<>> =>
       \A id \in DOMAIN hook.last :
          ActiveRow(id) <=> hook.last[id] \in {"follow", "join"}

\* addInterview is past its insert, which succeeded
Inserted == adder.pc \in {"guard", "mark24", "mark3", "done"} /\ adder.id # 0

\* C38: after a successful insert addInterview reports success and the row
\* it returns is the inserted row with both flags false, whatever the flag
\* writes of the guard do; a flag write of the guard that fails leaves its
\* flag false in the table and is not reported, one that succeeds sets it.
C38_GuardFailureSwallowed ==
    [][/\ Inserted' =>
             /\ adder'.success
             /\ adder'.data = NewRow(adder'.data.user_id, adder'.data.interview_date,
                                     adder'.data.interview_time)
             /\ interviewDateTime(adder'.data) = adder'.start
       /\ Inserted /\ adder.pc # "done" =>
             adder'.success /\ adder'.data = adder.data /\ adder'.id = adder.id
       /\ adder.pc = "mark24" /\ adder'.pc # "mark24" =>
             /\ adder'.failed <=> ~interviews'[adder.id].reminder_24h_sent
             /\ adder'.failed => interviews' = interviews
       /\ adder.pc = "mark3" /\ adder'.pc # "mark3" =>
             /\ ~interviews'[adder.id].reminder_3h_sent => adder'.failed
             /\ adder'.failed /\ ~adder.failed =>
                   ~interviews'[adder.id].reminder_3h_sent /\ interviews' = interviews]_vars

\* addInterview of an interview half an hour away has returned success with
\* the inserted row although both flag writes of its guard failed: the two
\* flags are false in the table
C38_Witness ==
    /\ adder.pc = "done" /\ adder.success /\ adder.failed
    /\ adder.need24 /\ adder.need3
    /\ adder.data = NewRow(UserA, 1, Noon)
    /\ interviews[adder.id] = adder.data

(***************************************************************************)
(* SpecFilter: one fetch of getInterviewsNeedingReminders over an          *)
(* interview of day 2 that starts at midnight, early, at noon or late in   *)
(* the day, with any flags, at instants on and around the bounds of its    *)
(* two windows: the windows lie on the day of the interview or on the day  *)
(* before                                                                  *)
(***************************************************************************)
\* interview_time: 00:00, 01:00, 12:00 and 23:30
FilterTimes == {0, Hour, Noon, 47 * (Hour \div 2)}

\* hours until the interview at the fetch, in hundredths
FilterDiffs ==
    {n * (Hour \div 100) :
        n \in {2451, 2450, 2400, 2350, 2349, 351, 350, 300, 250, 249, 0, -100}}

InitFilter ==
    /\ \E time \in FilterTimes, d \in FilterDiffs, a, b \in BOOLEAN :
          /\ now = 2 * DayMs + time - d
          /\ interviews = [k \in {1} |->
                              [NewRow(UserA, 2, time) EXCEPT !.reminder_24h_sent = a,
                                                             !.reminder_3h_sent = b]]
    /\ env = Broadcast
    /\ nextId = 2
    /\ InitCommon

NextFilter ==
    \/ Respond(1)
    \/ /\ Quiet
       /\ \E ok \in BOOLEAN : TriggerReminders(1, "", ok)

SpecFilter == InitFilter /\ [][NextFilter]_vars

\* the interviews of the table that satisfy the window condition of a kind,
\* whatever the select returns
InWindow(kind) ==
    {i \in DOMAIN interviews :
        IF kind = "24h" THEN in24hWindow(interviews[i], now)
        ELSE in3hWindow(interviews[i], now)}

\* C39: every interview with an unsent flag whose start is 23.5-24.5 h or
\* 2.5-3.5 h after now has a date on or after today and is returned by the
\* select of the candidate fetch, also when the window spans midnight; the
\* lists of a fetch are the interviews of the table inside the windows.
C39_PrefilterKeepsDue ==
    /\ \A i \in InWindow("24h") \cup InWindow("3h") :
          /\ interviews[i].interview_date >= Today(now)
          /\ i \in allInterviews(interviews, now)
    /\ \A c \in Cycles :
          cyc[c].pc = "send" =>
             /\ IdsOf(cyc[c].list24) = InWindow("24h")
             /\ IdsOf(cyc[c].list3) = InWindow("3h")

\* at 22:00 of day 1 a fetch has listed for 3h the interview of 01:00 of day
\* 2, whose 24h flag is set: its window spans midnight
C39_Witness ==
    /\ cyc[1].pc = "send" /\ IdsOf(cyc[1].list3) = {1} /\ cyc[1].list24 = <<>>
    /\ Today(now) = 1 /\ interviews[1].interview_date = 2
    /\ interviews[1].interview_time = Hour
    /\ interviews[1].reminder_24h_sent /\ ~interviews[1].reminder_3h_sent

====
